---------------------------- MODULE Spec2Model ----------------------------
(***************************************************************************)
(* LightChat: the provider catalogue, the model resolver (getModel) and    *)
(* the chat request handler (POST /api/chat), as state machines.           *)
(*                                                                         *)
(* JavaScript values are modelled as follows.  A string is a TLA+ string;  *)
(* an object is a function whose DOMAIN is the set of its own keys; a      *)
(* property read that finds no key gives Undefined.  An error message is   *)
(* the sequence of the pieces of its (template) literal, and Text(msg) is  *)
(* its sequence of characters, so that substring tests are computed.       *)
(***************************************************************************)
EXTENDS Naturals, Sequences, FiniteSets, TLC

VARIABLES
  resolverArgs,    \* getModel called directly: the ModelFactoryParams passed
  resolverResult,  \* getModel called directly: what it returned or threw
  request,         \* chat route: the inbound HTTP request (raw body)
  pc,              \* chat route: position of the handler in POST
  modelInstance,   \* chat route: the local `modelInstance`
  streamCall,      \* the arguments streamText (chat) or generateText (test) was called with
  response,        \* the HTTP response returned
  calls,           \* the checks and calls made so far, in order
  route,           \* which route handler the request went to: "chat", "test" or "none"
  caught,          \* the error caught by the catch block around the generation step
  toolRun,         \* one execution of the web_search tool
  slots,           \* two requests handled concurrently, each with its own locals
  lookups,         \* catalogue: the getProvider calls made so far, with what they returned
  llm,             \* browser: the settings context (React state, last render, localStorage)
  modal,           \* browser: the settings panel (draft fields, test status, pending test)
  store            \* browser: the conversation store

vars == <<resolverArgs, resolverResult, request, pc, modelInstance, streamCall, response, calls,
          route, caught, toolRun, slots, lookups, llm, modal, store>>

\* The variables outside the single request handler and the direct resolver call.
otherVars == <<toolRun, slots, lookups, llm, modal, store>>

\* The variables of the request handlers and of the direct resolver call.
serverVars == <<resolverArgs, resolverResult, request, pc, modelInstance, streamCall, response, calls,
                route, caught>>

\* The variables of the catalogue lookups and of the browser.
clientVars == <<lookups, llm, modal, store>>

----------------------------------------------------------------------------
(* Bounds of the model *)

\* The largest number of keys an extraConfig object passed to getModel holds.
MaxExtraKeys == 3

\* The largest number of keys the extraConfig object of a request body holds.
MaxBodyExtraKeys == 2

\* The largest number of catalogue lookups in one behaviour.
MaxLookups == 2

\* The largest number of context calls one event handler makes before React renders.
MaxBatch == 2

----------------------------------------------------------------------------
(* JavaScript values *)

\* The value of a missing property / an omitted argument.
Undefined == "<undefined>"

\* The object literal {}.
EmptyObject == << >>

\* obj.key
Get(obj, key) == IF key \in DOMAIN obj THEN obj[key] ELSE Undefined

\* !v for a string or undefined
Falsy(v) == v = Undefined \/ v = ""

\* a || b
Or(a, b) == IF Falsy(a) THEN b ELSE a

\* A destructuring default: { key = dflt } = obj
Default(obj, key, dflt) == IF key \in DOMAIN obj THEN obj[key] ELSE dflt

----------------------------------------------------------------------------
(* Strings as characters *)

\* ---- character table (one entry per string literal whose text is inspected) ----
Chars(s) ==
  CASE s = "" ->
         <<>>
    [] s = "constructor" ->
         <<"c", "o", "n", "s", "t", "r", "u", "c", "t", "o", "r">>
    [] s = "OpenAI" ->
         <<"O", "p", "e", "n", "A", "I">>
    [] s = "Azure requires a resource name in extra config." ->
         <<"A", "z", "u", "r", "e", " ", "r", "e", "q", "u", "i", "r", "e", "s", " ", "a", " ", "r", "e", "s", "o", "u", "r", "c", "e", " ", "n", "a", "m", "e", " ", "i", "n", " ", "e", "x", "t", "r", "a", " ", "c", "o", "n", "f", "i", "g", ".">>
    [] s = "OpenAI-compatible provider requires a base URL." ->
         <<"O", "p", "e", "n", "A", "I", "-", "c", "o", "m", "p", "a", "t", "i", "b", "l", "e", " ", "p", "r", "o", "v", "i", "d", "e", "r", " ", "r", "e", "q", "u", "i", "r", "e", "s", " ", "a", " ", "b", "a", "s", "e", " ", "U", "R", "L", ".">>
    [] s = "openai-compatible provider requires a model or extraConfig.modelId" ->
         <<"o", "p", "e", "n", "a", "i", "-", "c", "o", "m", "p", "a", "t", "i", "b", "l", "e", " ", "p", "r", "o", "v", "i", "d", "e", "r", " ", "r", "e", "q", "u", "i", "r", "e", "s", " ", "a", " ", "m", "o", "d", "e", "l", " ", "o", "r", " ", "e", "x", "t", "r", "a", "C", "o", "n", "f", "i", "g", ".", "m", "o", "d", "e", "l", "I", "d">>
    [] s = "Amazon Bedrock requires an AWS Access Key ID." ->
         <<"A", "m", "a", "z", "o", "n", " ", "B", "e", "d", "r", "o", "c", "k", " ", "r", "e", "q", "u", "i", "r", "e", "s", " ", "a", "n", " ", "A", "W", "S", " ", "A", "c", "c", "e", "s", "s", " ", "K", "e", "y", " ", "I", "D", ".">>
    [] s = "Amazon Bedrock requires an AWS Secret Access Key." ->
         <<"A", "m", "a", "z", "o", "n", " ", "B", "e", "d", "r", "o", "c", "k", " ", "r", "e", "q", "u", "i", "r", "e", "s", " ", "a", "n", " ", "A", "W", "S", " ", "S", "e", "c", "r", "e", "t", " ", "A", "c", "c", "e", "s", "s", " ", "K", "e", "y", ".">>
    [] s = "Google Vertex AI requires a GCP Project ID." ->
         <<"G", "o", "o", "g", "l", "e", " ", "V", "e", "r", "t", "e", "x", " ", "A", "I", " ", "r", "e", "q", "u", "i", "r", "e", "s", " ", "a", " ", "G", "C", "P", " ", "P", "r", "o", "j", "e", "c", "t", " ", "I", "D", ".">>
    [] s = "google-vertex does not support an API key. createVertex uses Application Default Credentials (ADC) or explicit googleAuthOptions/service-account credentials. Remove the API key and configure ADC instead." ->
         <<"g", "o", "o", "g", "l", "e", "-", "v", "e", "r", "t", "e", "x", " ", "d", "o", "e", "s", " ", "n", "o", "t", " ", "s", "u", "p", "p", "o", "r", "t", " ", "a", "n", " ", "A", "P", "I", " ", "k", "e", "y", ".", " ", "c", "r", "e", "a", "t", "e", "V", "e", "r", "t", "e", "x", " ", "u", "s", "e", "s", " ", "A", "p", "p", "l", "i", "c", "a", "t", "i", "o", "n", " ", "D", "e", "f", "a", "u", "l", "t", " ", "C", "r", "e", "d", "e", "n", "t", "i", "a", "l", "s", " ", "(", "A", "D", "C", ")", " ", "o", "r", " ", "e", "x", "p", "l", "i", "c", "i", "t", " ", "g", "o", "o", "g", "l", "e", "A", "u", "t", "h", "O", "p", "t", "i", "o", "n", "s", "/", "s", "e", "r", "v", "i", "c", "e", "-", "a", "c", "c", "o", "u", "n", "t", " ", "c", "r", "e", "d", "e", "n", "t", "i", "a", "l", "s", ".", " ", "R", "e", "m", "o", "v", "e", " ", "t", "h", "e", " ", "A", "P", "I", " ", "k", "e", "y", " ", "a", "n", "d", " ", "c", "o", "n", "f", "i", "g", "u", "r", "e", " ", "A", "D", "C", " ", "i", "n", "s", "t", "e", "a", "d", ".">>
    [] s = "Unsupported provider: \"" ->
         <<"U", "n", "s", "u", "p", "p", "o", "r", "t", "e", "d", " ", "p", "r", "o", "v", "i", "d", "e", "r", ":", " ", "\"">>
    [] s = "\". Check your settings." ->
         <<"\"", ".", " ", "C", "h", "e", "c", "k", " ", "y", "o", "u", "r", " ", "s", "e", "t", "t", "i", "n", "g", "s", ".">>
    [] s = "Invalid JSON body." ->
         <<"I", "n", "v", "a", "l", "i", "d", " ", "J", "S", "O", "N", " ", "b", "o", "d", "y", ".">>
    [] s = "No API key provided. Please configure a provider in Settings." ->
         <<"N", "o", " ", "A", "P", "I", " ", "k", "e", "y", " ", "p", "r", "o", "v", "i", "d", "e", "d", ".", " ", "P", "l", "e", "a", "s", "e", " ", "c", "o", "n", "f", "i", "g", "u", "r", "e", " ", "a", " ", "p", "r", "o", "v", "i", "d", "e", "r", " ", "i", "n", " ", "S", "e", "t", "t", "i", "n", "g", "s", ".">>
    [] s = "No model specified." ->
         <<"N", "o", " ", "m", "o", "d", "e", "l", " ", "s", "p", "e", "c", "i", "f", "i", "e", "d", ".">>
    [] s = "invalid api key" ->
         <<"i", "n", "v", "a", "l", "i", "d", " ", "a", "p", "i", " ", "k", "e", "y">>
    [] s = "Unauthorized" ->
         <<"U", "n", "a", "u", "t", "h", "o", "r", "i", "z", "e", "d">>
    [] s = "messages is required" ->
         <<"m", "e", "s", "s", "a", "g", "e", "s", " ", "i", "s", " ", "r", "e", "q", "u", "i", "r", "e", "d">>
    [] s = "Rate limit exceeded" ->
         <<"R", "a", "t", "e", " ", "l", "i", "m", "i", "t", " ", "e", "x", "c", "e", "e", "d", "e", "d">>
    [] s = "Web search is unavailable because TAVILY_API_KEY is not configured on the server." ->
         <<"W", "e", "b", " ", "s", "e", "a", "r", "c", "h", " ", "i", "s", " ", "u", "n", "a", "v", "a", "i", "l", "a", "b", "l", "e", " ", "b", "e", "c", "a", "u", "s", "e", " ", "T", "A", "V", "I", "L", "Y", "_", "A", "P", "I", "_", "K", "E", "Y", " ", "i", "s", " ", "n", "o", "t", " ", "c", "o", "n", "f", "i", "g", "u", "r", "e", "d", " ", "o", "n", " ", "t", "h", "e", " ", "s", "e", "r", "v", "e", "r", ".">>
    [] s = "Web search failed (" ->
         <<"W", "e", "b", " ", "s", "e", "a", "r", "c", "h", " ", "f", "a", "i", "l", "e", "d", " ", "(">>
    [] s = ")." ->
         <<")", ".">>
    [] s = "401" ->
         <<"4", "0", "1">>
    [] s = "429" ->
         <<"4", "2", "9">>
    [] s = "500" ->
         <<"5", "0", "0">>
    [] s = "fetch failed" ->
         <<"f", "e", "t", "c", "h", " ", "f", "a", "i", "l", "e", "d">>
    [] s = "Unexpected token < in JSON at position 0" ->
         <<"U", "n", "e", "x", "p", "e", "c", "t", "e", "d", " ", "t", "o", "k", "e", "n", " ", "<", " ", "i", "n", " ", "J", "S", "O", "N", " ", "a", "t", " ", "p", "o", "s", "i", "t", "i", "o", "n", " ", "0">>
    [] s = "API key is required." ->
         <<"A", "P", "I", " ", "k", "e", "y", " ", "i", "s", " ", "r", "e", "q", "u", "i", "r", "e", "d", ".">>
    [] s = "Model is required." ->
         <<"M", "o", "d", "e", "l", " ", "i", "s", " ", "r", "e", "q", "u", "i", "r", "e", "d", ".">>
    [] s = "unavailable" ->
         <<"u", "n", "a", "v", "a", "i", "l", "a", "b", "l", "e">>
    [] s = "web search failed" ->
         <<"w", "e", "b", " ", "s", "e", "a", "r", "c", "h", " ", "f", "a", "i", "l", "e", "d">>
    [] s = "auth" ->
         <<"a", "u", "t", "h">>
    [] s = "key" ->
         <<"k", "e", "y">>
    [] s = "invalid" ->
         <<"i", "n", "v", "a", "l", "i", "d">>
    [] s = "malformed" ->
         <<"m", "a", "l", "f", "o", "r", "m", "e", "d">>
    [] s = "required" ->
         <<"r", "e", "q", "u", "i", "r", "e", "d">>
    [] s = "missing" ->
         <<"m", "i", "s", "s", "i", "n", "g">>
    [] s = "resource name" ->
         <<"r", "e", "s", "o", "u", "r", "c", "e", " ", "n", "a", "m", "e">>
    [] s = "base url" ->
         <<"b", "a", "s", "e", " ", "u", "r", "l">>
    [] s = "secret access key" ->
         <<"s", "e", "c", "r", "e", "t", " ", "a", "c", "c", "e", "s", "s", " ", "k", "e", "y">>
    [] s = "project id" ->
         <<"p", "r", "o", "j", "e", "c", "t", " ", "i", "d">>
    [] s = "modelid" ->
         <<"m", "o", "d", "e", "l", "i", "d">>
    [] s = "region" ->
         <<"r", "e", "g", "i", "o", "n">>
    [] s = "unsupported provider" ->
         <<"u", "n", "s", "u", "p", "p", "o", "r", "t", "e", "d", " ", "p", "r", "o", "v", "i", "d", "e", "r">>
    [] s = "remove the api key" ->
         <<"r", "e", "m", "o", "v", "e", " ", "t", "h", "e", " ", "a", "p", "i", " ", "k", "e", "y">>
    [] s = "application default credentials" ->
         <<"a", "p", "p", "l", "i", "c", "a", "t", "i", "o", "n", " ", "d", "e", "f", "a", "u", "l", "t", " ", "c", "r", "e", "d", "e", "n", "t", "i", "a", "l", "s">>
\* ---- end of character table ----

\* String.prototype.toLowerCase, on one character.
LowerChar(c) ==
  CASE c = "A" -> "a" [] c = "B" -> "b" [] c = "C" -> "c" [] c = "D" -> "d"
    [] c = "E" -> "e" [] c = "F" -> "f" [] c = "G" -> "g" [] c = "H" -> "h"
    [] c = "I" -> "i" [] c = "J" -> "j" [] c = "K" -> "k" [] c = "L" -> "l"
    [] c = "M" -> "m" [] c = "N" -> "n" [] c = "O" -> "o" [] c = "P" -> "p"
    [] c = "Q" -> "q" [] c = "R" -> "r" [] c = "S" -> "s" [] c = "T" -> "t"
    [] c = "U" -> "u" [] c = "V" -> "v" [] c = "W" -> "w" [] c = "X" -> "x"
    [] c = "Y" -> "y" [] c = "Z" -> "z" [] OTHER -> c

\* String.prototype.toLowerCase
toLowerCase(cs) == [i \in DOMAIN cs |-> LowerChar(cs[i])]

\* String.prototype.includes
includes(cs, needle) ==
  \E i \in 0..Len(cs) :
    /\ i + Len(needle) <= Len(cs)
    /\ \A j \in 1..Len(needle) : cs[i + j] = needle[j]

RECURSIVE Text(_)
\* The characters of a message given as the pieces of its template literal.
Text(msg) == IF msg = << >> THEN << >> ELSE Chars(Head(msg)) \o Text(Tail(msg))

\* new Error(message)
Error(name, msg) == [name |-> name, message |-> msg]

----------------------------------------------------------------------------
(* Provider catalogue *)

\* A catalogue with a repeated id and an entry without models or a modelId field.
PROVIDERS_repeatedId == <<
    [id |-> "openai", models |-> <<"gpt-4o">>, supportsTools |-> TRUE],
    [id |-> "google", models |-> <<"gemini-2.0-flash">>, supportsTools |-> TRUE],
    [id |-> "openai", models |-> << >>]
  >>

PROVIDERS == <<
    [id |-> "openai",
     models |-> <<"gpt-4o", "gpt-4o-mini", "gpt-4-turbo", "gpt-5.3-codex", "gpt-5.2", "gpt-5", "gpt-5-mini", "o1", "o1-mini", "o3-mini", "gpt-3.5-turbo">>,
     supportsTools |-> TRUE],
    [id |-> "anthropic",
     models |-> <<"claude-opus-4-6", "claude-sonnet-4-6", "claude-haiku-4-5-20251001">>],
    [id |-> "google",
     models |-> <<"gemini-2.0-flash", "gemini-2.5-flash-preview-04-17", "gemini-3.1-pro", "gemini-3.1-pro-preview", "gemini-1.5-pro", "gemini-1.5-flash">>,
     supportsTools |-> TRUE],
    [id |-> "xai",
     models |-> <<"grok-2-1212", "grok-2-vision-1212", "grok-3", "grok-3-mini", "grok-beta">>],
    [id |-> "mistral",
     models |-> <<"mistral-large-latest", "mistral-small-latest", "codestral-latest", "open-mixtral-8x7b", "open-mixtral-8x22b">>],
    [id |-> "groq",
     models |-> <<"llama-3.3-70b-versatile", "llama-3.1-8b-instant", "llama-3.2-90b-vision-preview", "mixtral-8x7b-32768", "gemma2-9b-it">>],
    [id |-> "cohere",
     models |-> <<"command-r-plus", "command-r", "command", "command-light">>],
    [id |-> "deepseek",
     models |-> <<"deepseek-chat", "deepseek-reasoner">>],
    [id |-> "perplexity",
     models |-> <<"sonar-pro", "sonar", "sonar-reasoning-pro", "sonar-reasoning">>],
    [id |-> "cerebras",
     models |-> <<"llama3.1-70b", "llama3.1-8b", "llama3.3-70b">>],
    [id |-> "fireworks",
     models |-> <<"accounts/fireworks/models/llama-v3p3-70b-instruct", "accounts/fireworks/models/deepseek-r1", "accounts/fireworks/models/mixtral-8x7b-instruct", "accounts/fireworks/models/qwen2p5-72b-instruct">>],
    [id |-> "deepinfra",
     models |-> <<"meta-llama/Meta-Llama-3.1-70B-Instruct", "meta-llama/Meta-Llama-3.1-8B-Instruct", "mistralai/Mixtral-8x7B-Instruct-v0.1", "deepseek-ai/DeepSeek-R1">>],
    [id |-> "togetherai",
     models |-> <<"meta-llama/Meta-Llama-3.1-70B-Instruct-Turbo", "meta-llama/Meta-Llama-3.1-8B-Instruct-Turbo", "mistralai/Mixtral-8x7B-Instruct-v0.1", "google/gemma-2-27b-it", "deepseek-ai/DeepSeek-R1">>],
    [id |-> "azure",
     models |-> <<"gpt-4o", "gpt-4o-mini", "gpt-4", "gpt-35-turbo">>,
     extraConfigFields |-> <<
         [key |-> "resourceName", required |-> TRUE]>>],
    [id |-> "openai-compatible",
     models |-> <<>>,
     extraConfigFields |-> <<
         [key |-> "baseURL", required |-> TRUE],
         [key |-> "modelId", required |-> TRUE]>>],
    [id |-> "amazon-bedrock",
     models |-> <<"anthropic.claude-3-5-sonnet-20241022-v2:0", "anthropic.claude-3-haiku-20240307-v1:0", "amazon.titan-text-express-v1", "meta.llama3-70b-instruct-v1:0", "mistral.mixtral-8x7b-instruct-v0:1">>,
     extraConfigFields |-> <<
         [key |-> "secretAccessKey", required |-> TRUE],
         [key |-> "region", required |-> TRUE]>>,
     requiresCloudCredentials |-> TRUE],
    [id |-> "google-vertex",
     models |-> <<"gemini-2.0-flash", "gemini-1.5-pro", "gemini-1.5-flash">>,
     extraConfigFields |-> <<
         [key |-> "project", required |-> TRUE],
         [key |-> "location", required |-> FALSE]>>,
     requiresCloudCredentials |-> TRUE]
  >>

\* PROVIDER_MAP = Object.fromEntries(PROVIDERS.map((p) => [p.id, p]))
PROVIDER_MAP ==
  [id \in {PROVIDERS[i].id : i \in DOMAIN PROVIDERS} |->
     PROVIDERS[CHOOSE i \in DOMAIN PROVIDERS :
                 /\ PROVIDERS[i].id = id
                 /\ \A j \in DOMAIN PROVIDERS : PROVIDERS[j].id = id => j <= i]]

\* The ids of the catalogue.
ProviderIds == {PROVIDERS[i].id : i \in DOMAIN PROVIDERS}

\* The extraConfigFields of a catalogue entry ([] when the entry has none).
ExtraConfigFieldsOf(p) == IF "extraConfigFields" \in DOMAIN p THEN p.extraConfigFields ELSE << >>

\* The keys of the extra-config fields a catalogue entry marks required.
RequiredKeys(p) ==
  {ExtraConfigFieldsOf(p)[i].key : i \in {j \in DOMAIN ExtraConfigFieldsOf(p) : ExtraConfigFieldsOf(p)[j].required}}

DEFAULT_PROVIDER_ID == "google"

----------------------------------------------------------------------------
(* Model resolver: getModel *)

\* A LanguageModel: provider factory, the settings it was created with, the model id.
Handle(factory, settings, modelId) == [factory |-> factory, settings |-> settings, modelId |-> modelId]

Return(v) == [threw |-> FALSE, value |-> v]

Throw(msg) == [threw |-> TRUE, error |-> Error("Error", msg)]

\* The case labels of the switch, with the factory of the thirteen API-key-only ones.
SimpleFactory ==
  [openai |-> "createOpenAI", anthropic |-> "createAnthropic", google |-> "createGoogleGenerativeAI",
   xai |-> "createXai", mistral |-> "createMistral", groq |-> "createGroq", cohere |-> "createCohere",
   deepseek |-> "createDeepSeek", perplexity |-> "createPerplexity", cerebras |-> "createCerebras",
   fireworks |-> "createFireworks", deepinfra |-> "createDeepInfra", togetherai |-> "createTogetherAI"]

\* case 'openai' ... case 'togetherai': return createX({ apiKey })(model)
caseSimple(provider, apiKey, model) ==
  Return(Handle(SimpleFactory[provider], [apiKey |-> apiKey], model))

\* caseAzure with the resource-name check left out.
caseAzure_unchecked(apiKey, model, extraConfig) ==
  Return(Handle("createAzure", [apiKey |-> apiKey, resourceName |-> Get(extraConfig, "resourceName")], model))

\* case 'azure'
caseAzure(apiKey, model, extraConfig) ==
  LET resourceName == Get(extraConfig, "resourceName")
  IN  IF Falsy(resourceName)
        THEN Throw(<<"Azure requires a resource name in extra config.">>)
        ELSE Return(Handle("createAzure", [apiKey |-> apiKey, resourceName |-> resourceName], model))

\* caseOpenAICompatible with the fallback the wrong way round: extraConfig.modelId || model.
caseOpenAICompatible_modelIdFirst(apiKey, model, extraConfig) ==
  LET baseURL == Get(extraConfig, "baseURL")
      effectiveModel == Or(Get(extraConfig, "modelId"), model)
  IN  IF Falsy(baseURL)
        THEN Throw(<<"OpenAI-compatible provider requires a base URL.">>)
      ELSE IF Falsy(effectiveModel)
        THEN Throw(<<"openai-compatible provider requires a model or extraConfig.modelId">>)
      ELSE Return(Handle("createOpenAI", [apiKey |-> apiKey, baseURL |-> baseURL], effectiveModel))

\* case 'openai-compatible'
caseOpenAICompatible(apiKey, model, extraConfig) ==
  LET baseURL == Get(extraConfig, "baseURL")
      effectiveModel == Or(model, Get(extraConfig, "modelId"))
  IN  IF Falsy(baseURL)
        THEN Throw(<<"OpenAI-compatible provider requires a base URL.">>)
      ELSE IF Falsy(effectiveModel)
        THEN Throw(<<"openai-compatible provider requires a model or extraConfig.modelId">>)
      ELSE Return(Handle("createOpenAI", [apiKey |-> apiKey, baseURL |-> baseURL], effectiveModel))

\* caseAmazonBedrock with the secret-key check left out.
caseAmazonBedrock_noSecretCheck(apiKey, model, extraConfig) ==
  LET secretAccessKey == Get(extraConfig, "secretAccessKey")
      region == Or(Get(extraConfig, "region"), "us-east-1")
  IN  IF Falsy(apiKey)
        THEN Throw(<<"Amazon Bedrock requires an AWS Access Key ID.">>)
      ELSE Return(Handle("createAmazonBedrock",
                         [region |-> region, accessKeyId |-> apiKey, secretAccessKey |-> secretAccessKey],
                         model))

\* case 'amazon-bedrock'
caseAmazonBedrock(apiKey, model, extraConfig) ==
  LET secretAccessKey == Get(extraConfig, "secretAccessKey")
      region == Or(Get(extraConfig, "region"), "us-east-1")
  IN  IF Falsy(apiKey)
        THEN Throw(<<"Amazon Bedrock requires an AWS Access Key ID.">>)
      ELSE IF Falsy(secretAccessKey)
        THEN Throw(<<"Amazon Bedrock requires an AWS Secret Access Key.">>)
      ELSE Return(Handle("createAmazonBedrock",
                         [region |-> region, accessKeyId |-> apiKey, secretAccessKey |-> secretAccessKey],
                         model))

\* caseGoogleVertex that ignores extraConfig.apiKey instead of rejecting it.
caseGoogleVertex_ignoresApiKey(apiKey, model, extraConfig) ==
  LET project == Get(extraConfig, "project")
      location == Or(Get(extraConfig, "location"), "us-central1")
  IN  IF Falsy(project)
        THEN Throw(<<"Google Vertex AI requires a GCP Project ID.">>)
      ELSE Return(Handle("createVertex", [project |-> project, location |-> location], model))

\* case 'google-vertex'
caseGoogleVertex(apiKey, model, extraConfig) ==
  LET project == Get(extraConfig, "project")
      location == Or(Get(extraConfig, "location"), "us-central1")
  IN  IF Falsy(project)
        THEN Throw(<<"Google Vertex AI requires a GCP Project ID.">>)
      ELSE IF ~Falsy(Get(extraConfig, "apiKey"))
        THEN Throw(<<"google-vertex does not support an API key. createVertex uses Application Default Credentials (ADC) or explicit googleAuthOptions/service-account credentials. Remove the API key and configure ADC instead.">>)
      ELSE Return(Handle("createVertex", [project |-> project, location |-> location], model))

\* default:
caseDefault(provider) ==
  Throw(<<"Unsupported provider: \"", provider, "\". Check your settings.">>)

\* switchLabel with the last API-key-only case missing from the switch.
switchLabel_missingCase(provider) ==
  IF provider \in (DOMAIN SimpleFactory \ {"togetherai"})
       \cup {"azure", "openai-compatible", "amazon-bedrock", "google-vertex"}
    THEN provider
    ELSE "default"

\* switchLabel that sends an empty provider to the default provider's case.
switchLabel_emptyIsDefault(provider) ==
  IF provider = ""
    THEN DEFAULT_PROVIDER_ID
  ELSE IF provider \in DOMAIN SimpleFactory
       \cup {"azure", "openai-compatible", "amazon-bedrock", "google-vertex"}
    THEN provider
    ELSE "default"

\* switch (provider): the case label control goes to.
switchLabel(provider) ==
  IF provider \in DOMAIN SimpleFactory
       \cup {"azure", "openai-compatible", "amazon-bedrock", "google-vertex"}
    THEN provider
    ELSE "default"

\* getModel({ provider, apiKey, model, extraConfig = {} })
getModel(params) ==
  LET provider == params.provider
      apiKey == params.apiKey
      model == params.model
      extraConfig == Default(params, "extraConfig", EmptyObject)
      label == switchLabel(provider)
  IN  CASE label \in DOMAIN SimpleFactory -> caseSimple(label, apiKey, model)
        [] label = "azure" -> caseAzure(apiKey, model, extraConfig)
        [] label = "openai-compatible" -> caseOpenAICompatible(apiKey, model, extraConfig)
        [] label = "amazon-bedrock" -> caseAmazonBedrock(apiKey, model, extraConfig)
        [] label = "google-vertex" -> caseGoogleVertex(apiKey, model, extraConfig)
        [] OTHER -> caseDefault(provider)

----------------------------------------------------------------------------
(* Inputs *)

\* Provider strings that are not catalogue ids.
OtherProviders == {"", "constructor", "OpenAI"}

ProviderInputs == ProviderIds \cup OtherProviders

ApiKeyInputs == {"", "sk-test"}

ModelInputs == {"", "gpt-4o"}

\* The keys getModel reads from extraConfig.
ExtraKeys == {"resourceName", "baseURL", "modelId", "secretAccessKey", "region", "project", "location", "apiKey"}

ExtraValues == {"", "v1"}

\* The extraConfig objects with at most n keys.
ExtraConfigs(n) ==
  UNION {[S -> ExtraValues] : S \in {T \in SUBSET ExtraKeys : Cardinality(T) <= n}}

\* The ModelFactoryParams getModel is called with (extraConfig may be omitted).
ResolverParams ==
  {[provider |-> p, apiKey |-> k, model |-> m, extraConfig |-> e] :
     p \in ProviderInputs, k \in ApiKeyInputs, m \in ModelInputs, e \in ExtraConfigs(MaxExtraKeys)}
  \cup {[provider |-> p, apiKey |-> k, model |-> m] :
     p \in ProviderInputs, k \in ApiKeyInputs, m \in ModelInputs}

NotCalled == [called |-> FALSE]

----------------------------------------------------------------------------
(* Chat route: state of a handler that has not started *)

NoModelInstance == [factory |-> Undefined]
NoRequest == [malformed |-> FALSE, body |-> EmptyObject]
NoResponse == [status |-> 0]
NoStreamCall == [called |-> FALSE]
NoError == [name |-> "", message |-> << >>]

NoToolRun == [pc |-> "idle"]

\* Two requests in flight at once.
SlotIds == {1, 2}

\* The locals of a handler invocation that has not started.
IdleSlot ==
  [route |-> "none", request |-> NoRequest, pc |-> "idle", modelInstance |-> NoModelInstance,
   vendor |-> NoError, response |-> NoResponse]

NoSlots == [i \in SlotIds |-> IdleSlot]

NoLookups == << >>
NoLlm == [mounted |-> FALSE]
NoModal == [open |-> FALSE]
NoStore == [created |-> FALSE]

ClientIdle ==
  /\ lookups = NoLookups
  /\ llm = NoLlm
  /\ modal = NoModal
  /\ store = NoStore

OthersIdle ==
  /\ toolRun = NoToolRun
  /\ slots = NoSlots
  /\ ClientIdle

ChatIdle ==
  /\ request = NoRequest
  /\ pc = "idle"
  /\ modelInstance = NoModelInstance
  /\ streamCall = NoStreamCall
  /\ response = NoResponse
  /\ calls = << >>
  /\ route = "none"
  /\ caught = NoError

----------------------------------------------------------------------------
(* Specification of the resolver called on its own *)

ResolverInit ==
  /\ resolverArgs \in ResolverParams
  /\ resolverResult = NotCalled
  /\ ChatIdle
  /\ OthersIdle

\* One call getModel(resolverArgs).
CallGetModel ==
  /\ ~resolverResult.called
  /\ resolverResult' = [called |-> TRUE, outcome |-> getModel(resolverArgs)]
  /\ UNCHANGED <<resolverArgs, request, pc, modelInstance, streamCall, response, calls, route, caught>>
  /\ UNCHANGED otherVars

ResolverNext == CallGetModel

SpecResolver == ResolverInit /\ [][ResolverNext]_vars

----------------------------------------------------------------------------
(* Chat route: POST /api/chat *)

\* getProvider(id): PROVIDER_MAP[id].  PROVIDER_MAP is a plain object, so a key it
\* does not own is looked up on Object.prototype.
ObjectPrototypeKeys ==
  {"constructor", "toString", "valueOf", "hasOwnProperty", "isPrototypeOf",
   "propertyIsEnumerable", "toLocaleString", "__proto__"}

getProvider(id) ==
  IF id \in DOMAIN PROVIDER_MAP THEN PROVIDER_MAP[id]
  ELSE IF id \in ObjectPrototypeKeys THEN [inherited |-> id]
  ELSE Undefined

\* Boolean(getProvider(provider)?.supportsTools)
providerSupportsTools(provider) ==
  IF provider \notin DOMAIN PROVIDER_MAP \cup ObjectPrototypeKeys THEN FALSE
  ELSE Default(getProvider(provider), "supportsTools", FALSE)

\* Response.json(body, { status })
JsonResponse(status, body) == [status |-> status, kind |-> "json", body |-> body]

\* result.toUIMessageStreamResponse()
StreamResponse == [status |-> 200, kind |-> "stream"]

\* Destructure with another default provider.
Destructure_defaultOpenAI(body) ==
  [provider |-> Default(body, "provider", "openai"),
   apiKey |-> Default(body, "apiKey", ""),
   model |-> Default(body, "model", ""),
   extraConfig |-> Default(body, "extraConfig", EmptyObject),
   enableWebSearch |-> Default(body, "enableWebSearch", FALSE)]

\* The destructured body: { provider = 'google', apiKey = '', model = '', extraConfig = {},
\* enableWebSearch = false }
Destructure(body) ==
  [provider |-> Default(body, "provider", "google"),
   apiKey |-> Default(body, "apiKey", ""),
   model |-> Default(body, "model", ""),
   extraConfig |-> Default(body, "extraConfig", EmptyObject),
   enableWebSearch |-> Default(body, "enableWebSearch", FALSE)]

\* apiKeyMissing without the exemption of the credential-less provider.
apiKeyMissing_noExemption(provider, apiKey) == Falsy(apiKey)

\* if (!apiKey && provider !== 'google-vertex')
apiKeyMissing(provider, apiKey) == Falsy(apiKey) /\ provider # "google-vertex"

\* modelMissing that does not look at the extraConfig.modelId fallback.
modelMissing_noFallback(model, extraConfig) == Falsy(model)

\* if (!model && !extraConfig.modelId)
modelMissing(model, extraConfig) == Falsy(model) /\ Falsy(Get(extraConfig, "modelId"))

\* errorStatus without the structural-validation bucket.
errorStatus_noBadRequest(err) ==
  LET lower == toLowerCase(Text(err.message))
  IN  IF includes(lower, Chars("auth")) \/ includes(lower, Chars("key")) THEN 401 ELSE 500

\* The status the catch block of the streaming step picks for an error.
errorStatus(err) ==
  LET message == Text(err.message)
      lower == toLowerCase(message)
  IN  IF includes(lower, Chars("auth")) \/ includes(lower, Chars("key")) THEN 401
      ELSE IF \/ err.name = "ValidationError"
              \/ \E w \in {"invalid", "malformed", "required", "missing"} : includes(lower, Chars(w))
        THEN 400
      ELSE 500

\* catchResponse that answers with a fixed text instead of the error's message.
catchResponse_generic(err) == JsonResponse(errorStatus(err), [error |-> <<"Unauthorized">>])

\* catch (err) { ... return Response.json({ error: message }, { status }) }
catchResponse(err) == JsonResponse(errorStatus(err), [error |-> err.message])

\* resolveFailure that classifies the resolver's error like the streaming step's catch block.
resolveFailure_classified(err) == catchResponse(err)

\* catch (err) around getModel: return Response.json({ error: message }, { status: 400 })
resolveFailure(err) == JsonResponse(400, [error |-> err.message])

\* toolsFor that does not ask whether the provider supports tools.
toolsFor_anyProvider(enableWebSearch, provider) ==
  IF enableWebSearch THEN {"web_search"} ELSE {}

\* The tools passed to streamText: { web_search } or undefined (no tools).
toolsFor(enableWebSearch, provider) ==
  IF enableWebSearch /\ providerSupportsTools(provider) THEN {"web_search"} ELSE {}

\* Request bodies (parsed JSON).
BodyKeyChoices(key, values) == {<< >>} \cup {[k \in {key} |-> v] : v \in values}

Merge(f, g) == [k \in DOMAIN f \cup DOMAIN g |-> IF k \in DOMAIN f THEN f[k] ELSE g[k]]

Bodies ==
  {Merge(Merge(Merge(a, b), Merge(c, d)), e) :
     a \in BodyKeyChoices("provider", ProviderInputs),
     b \in BodyKeyChoices("apiKey", ApiKeyInputs),
     c \in BodyKeyChoices("model", ModelInputs),
     d \in BodyKeyChoices("extraConfig", ExtraConfigs(MaxBodyExtraKeys)),
     e \in BodyKeyChoices("enableWebSearch", {TRUE})}

\* The requests: a body that does not parse as JSON, or one that parses to a body.
Requests == {[malformed |-> TRUE, body |-> EmptyObject]} \cup {[malformed |-> FALSE, body |-> b] : b \in Bodies}

\* The errors thrown inside the streaming try block (by convertToModelMessages or streamText).
ThrownErrors ==
  {Error("AI_APICallError", <<"invalid api key">>),
   Error("Error", <<"Unauthorized">>),
   Error("Error", <<"messages is required">>),
   Error("ValidationError", <<"Rate limit exceeded">>),
   Error("Error", <<"Rate limit exceeded">>)}

ResolverIdle ==
  /\ resolverArgs = [provider |-> "", apiKey |-> "", model |-> ""]
  /\ resolverResult = NotCalled

ChatInit == ChatIdle /\ ResolverIdle /\ OthersIdle

\* A request arrives: POST(req) starts.
Receive ==
  /\ pc = "idle"
  /\ route = "none"
  /\ request' \in Requests
  /\ pc' = "parse"
  /\ route' = "chat"
  /\ UNCHANGED <<resolverArgs, resolverResult, modelInstance, streamCall, response, calls, caught>>
  /\ UNCHANGED otherVars

\* Parse without the catch: a body that does not parse is handled as an empty one.
Parse_noCatch ==
  /\ pc = "parse"
  /\ calls' = Append(calls, "req.json")
  /\ pc' = "validate"
  /\ UNCHANGED <<resolverArgs, resolverResult, request, modelInstance, streamCall, response, route, caught>>
  /\ UNCHANGED otherVars

\* try { body = await req.json() } catch { return 400 'Invalid JSON body.' }
Parse ==
  /\ pc = "parse"
  /\ calls' = Append(calls, "req.json")
  /\ IF request.malformed
       THEN /\ response' = JsonResponse(400, [error |-> <<"Invalid JSON body.">>])
            /\ pc' = "done"
       ELSE /\ pc' = "validate"
            /\ UNCHANGED response
  /\ UNCHANGED <<resolverArgs, resolverResult, request, modelInstance, streamCall, route, caught>>
  /\ UNCHANGED otherVars

\* The synchronous stretch from the destructuring to the end of the getModel try/catch.
ValidateAndResolve ==
  /\ pc = "validate"
  /\ LET b == Destructure(request.body)
         resolved == getModel([provider |-> b.provider, apiKey |-> b.apiKey,
                               model |-> b.model, extraConfig |-> b.extraConfig])
     IN  IF apiKeyMissing(b.provider, b.apiKey)
           THEN /\ response' = JsonResponse(400, [error |-> <<"No API key provided. Please configure a provider in Settings.">>])
                /\ calls' = Append(calls, "checkApiKey")
                /\ pc' = "done"
                /\ UNCHANGED modelInstance
         ELSE IF modelMissing(b.model, b.extraConfig)
           THEN /\ response' = JsonResponse(400, [error |-> <<"No model specified.">>])
                /\ calls' = calls \o <<"checkApiKey", "checkModel">>
                /\ pc' = "done"
                /\ UNCHANGED modelInstance
         ELSE IF resolved.threw
           THEN /\ response' = resolveFailure(resolved.error)
                /\ calls' = calls \o <<"checkApiKey", "checkModel", "getModel">>
                /\ pc' = "done"
                /\ UNCHANGED modelInstance
         ELSE /\ modelInstance' = resolved.value
              /\ calls' = calls \o <<"checkApiKey", "checkModel", "getModel">>
              /\ pc' = "convert"
              /\ UNCHANGED response
  /\ UNCHANGED <<resolverArgs, resolverResult, request, streamCall, route, caught>>
  /\ UNCHANGED otherVars

\* const modelMessages = await convertToModelMessages(messages): returns, or throws into the catch.
Convert ==
  /\ pc = "convert"
  /\ calls' = Append(calls, "convertToModelMessages")
  /\ \/ /\ pc' = "stream"
        /\ UNCHANGED <<response, caught>>
     \/ \E err \in ThrownErrors :
          /\ caught' = err
          /\ response' = catchResponse(err)
          /\ pc' = "done"
  /\ UNCHANGED <<resolverArgs, resolverResult, request, modelInstance, streamCall, route>>
  /\ UNCHANGED otherVars

\* Stream that calls streamText again after a failure.
Stream_retries ==
  /\ pc = "stream"
  /\ Len(calls) < 8
  /\ LET b == Destructure(request.body)
     IN  streamCall' = [called |-> TRUE, model |-> modelInstance,
                        tools |-> toolsFor(b.enableWebSearch, b.provider)]
  /\ calls' = Append(calls, "streamText")
  /\ \/ /\ response' = StreamResponse
        /\ pc' = "done"
        /\ UNCHANGED caught
     \/ \E err \in ThrownErrors :
          /\ caught' = err
          /\ pc' = "stream"
          /\ UNCHANGED response
  /\ UNCHANGED <<resolverArgs, resolverResult, request, modelInstance, route>>
  /\ UNCHANGED otherVars

\* tools, streamText({ model, messages, tools }), return result.toUIMessageStreamResponse():
\* returns the stream, or throws into the catch.  The providerOptions argument comes from
\* getReasoningProviderOptions, which these sources import but do not contain; it is passed
\* through to streamText and is not represented here.
Stream ==
  /\ pc = "stream"
  /\ LET b == Destructure(request.body)
     IN  streamCall' = [called |-> TRUE, model |-> modelInstance,
                        tools |-> toolsFor(b.enableWebSearch, b.provider)]
  /\ calls' = Append(calls, "streamText")
  /\ \/ /\ response' = StreamResponse
        /\ UNCHANGED caught
     \/ \E err \in ThrownErrors :
          /\ caught' = err
          /\ response' = catchResponse(err)
  /\ pc' = "done"
  /\ UNCHANGED <<resolverArgs, resolverResult, request, modelInstance, route>>
  /\ UNCHANGED otherVars

ChatNext == Receive \/ Parse \/ ValidateAndResolve \/ Convert \/ Stream

Spec == ChatInit /\ [][ChatNext]_vars

----------------------------------------------------------------------------
(* Connection-test route: POST /api/chat/test *)

\* const { provider = 'google', apiKey = '', model = '', extraConfig = {} } = body
TestDestructure(body) ==
  [provider |-> Default(body, "provider", "google"),
   apiKey |-> Default(body, "apiKey", ""),
   model |-> Default(body, "model", ""),
   extraConfig |-> Default(body, "extraConfig", EmptyObject)]

\* testApiKeyMissing that lets every request through.
testApiKeyMissing_never(provider, apiKey) == FALSE

\* if (!apiKey && provider !== 'google-vertex')
testApiKeyMissing(provider, apiKey) == Falsy(apiKey) /\ provider # "google-vertex"

\* if (!model)
testModelMissing(model) == Falsy(model)

\* Response.json({ error: message }, { status: 400 }): the answer to a failure before the call.
testRejected(message) == JsonResponse(400, [error |-> message])

\* Response.json({ success: true })
testSucceeded == JsonResponse(200, [success |-> TRUE])

\* testFailed that answers with the default status.
testFailed_status200(err) == JsonResponse(200, [success |-> FALSE, error |-> err.message])

\* catch (err) { return Response.json({ success: false, error: message }, { status: 400 }) }
testFailed(err) == JsonResponse(400, [success |-> FALSE, error |-> err.message])

\* The bodies of the test route: each field present or absent.
TestBodies ==
  {Merge(Merge(a, b), Merge(c, d)) :
     a \in BodyKeyChoices("provider", ProviderInputs),
     b \in BodyKeyChoices("apiKey", ApiKeyInputs),
     c \in BodyKeyChoices("model", ModelInputs),
     d \in BodyKeyChoices("extraConfig", ExtraConfigs(MaxBodyExtraKeys))}

TestRequests == {[malformed |-> TRUE, body |-> EmptyObject]} \cup {[malformed |-> FALSE, body |-> b] : b \in TestBodies}

\* A request arrives at the test route: POST(req) starts.
TestReceive ==
  /\ pc = "idle"
  /\ route = "none"
  /\ request' \in TestRequests
  /\ pc' = "testParse"
  /\ route' = "test"
  /\ UNCHANGED <<resolverArgs, resolverResult, modelInstance, streamCall, response, calls, caught>>
  /\ UNCHANGED otherVars

\* try { body = await req.json() } catch { return 400 'Invalid JSON body.' }
TestParse ==
  /\ pc = "testParse"
  /\ calls' = Append(calls, "req.json")
  /\ IF request.malformed
       THEN /\ response' = testRejected(<<"Invalid JSON body.">>)
            /\ pc' = "done"
       ELSE /\ pc' = "testValidate"
            /\ UNCHANGED response
  /\ UNCHANGED <<resolverArgs, resolverResult, request, modelInstance, streamCall, route, caught>>
  /\ UNCHANGED otherVars

\* The synchronous stretch from the destructuring to the end of the getModel try/catch.
TestValidateAndResolve ==
  /\ pc = "testValidate"
  /\ LET b == TestDestructure(request.body)
         resolved == getModel([provider |-> b.provider, apiKey |-> b.apiKey,
                               model |-> b.model, extraConfig |-> b.extraConfig])
     IN  IF testApiKeyMissing(b.provider, b.apiKey)
           THEN /\ response' = testRejected(<<"API key is required.">>)
                /\ calls' = Append(calls, "checkApiKey")
                /\ pc' = "done"
                /\ UNCHANGED modelInstance
         ELSE IF testModelMissing(b.model)
           THEN /\ response' = testRejected(<<"Model is required.">>)
                /\ calls' = calls \o <<"checkApiKey", "checkModel">>
                /\ pc' = "done"
                /\ UNCHANGED modelInstance
         ELSE IF resolved.threw
           THEN /\ response' = testRejected(resolved.error.message)
                /\ calls' = calls \o <<"checkApiKey", "checkModel", "getModel">>
                /\ pc' = "done"
                /\ UNCHANGED modelInstance
         ELSE /\ modelInstance' = resolved.value
              /\ calls' = calls \o <<"checkApiKey", "checkModel", "getModel">>
              /\ pc' = "testGenerate"
              /\ UNCHANGED response
  /\ UNCHANGED <<resolverArgs, resolverResult, request, streamCall, route, caught>>
  /\ UNCHANGED otherVars

\* await generateText({ model, messages, maxOutputTokens: 5 }): resolves, or throws into
\* the catch.
TestGenerate ==
  /\ pc = "testGenerate"
  /\ streamCall' = [called |-> TRUE, model |-> modelInstance, maxOutputTokens |-> 5]
  /\ calls' = Append(calls, "generateText")
  /\ \/ /\ response' = testSucceeded
        /\ UNCHANGED caught
     \/ \E err \in ThrownErrors :
          /\ caught' = err
          /\ response' = testFailed(err)
  /\ pc' = "done"
  /\ UNCHANGED <<resolverArgs, resolverResult, request, modelInstance, route>>
  /\ UNCHANGED otherVars

TestNext == TestReceive \/ TestParse \/ TestValidateAndResolve \/ TestGenerate

SpecTest == ChatInit /\ [][TestNext]_vars

\* One request, at either route.
RoutesNext == ChatNext \/ TestNext

SpecRoutes == ChatInit /\ [][RoutesNext]_vars

----------------------------------------------------------------------------
(* Chat route: the web_search tool's execute *)

\* searchUnavailable that throws instead of returning the message.
searchUnavailable_throws ==
  Throw(<<"Web search is unavailable because TAVILY_API_KEY is not configured on the server.">>)

\* if (!tavilyApiKey) return { error: '...' }
searchUnavailable ==
  Return([error |-> <<"Web search is unavailable because TAVILY_API_KEY is not configured on the server.">>])

\* fetch('https://api.tavily.com/search', { method: 'POST', headers, body })
searchRequest(tavilyApiKey, query) ==
  [url |-> "https://api.tavily.com/search", method |-> "POST",
   body |-> [api_key |-> tavilyApiKey, query |-> query, search_depth |-> "advanced", max_results |-> 5]]

\* Response.ok: the status is in the range 200-299.
ok(status) == status >= 200 /\ status <= 299

\* searchFailed that returns the failure as a value instead of throwing it.
searchFailed_returns(status) == Return([error |-> <<"Web search failed (", ToString(status), ").">>])

\* throw new Error(`Web search failed (${tavilyResponse.status}).`)
searchFailed(status) == Throw(<<"Web search failed (", ToString(status), ").">>)

\* return { answer: tavilyData.answer ?? '', results: (tavilyData.results ?? []).map(...) }
searchResult(tavilyData) ==
  LET results == Default(tavilyData, "results", << >>)
  IN  Return([answer |-> Default(tavilyData, "answer", ""),
              results |-> [i \in DOMAIN results |->
                             [title |-> Default(results[i], "title", ""),
                              url |-> Default(results[i], "url", ""),
                              content |-> Default(results[i], "content", "")]]])

\* process.env.TAVILY_API_KEY
TavilyKeyInputs == {Undefined, "", "tvly-1", "tvly-2"}

\* The query the model passes (the input schema admits strings of two characters or more).
QueryInputs == {"ai", "news today", "tla+"}

\* The result entries the search API may answer with.
ResultEntryInputs ==
  {<< >>, [title |-> "T"], [title |-> "T", url |-> "https://e.org", content |-> "C"]}

\* The JSON bodies of an OK answer.
TavilyDataInputs ==
  {Merge(a, r) :
     a \in BodyKeyChoices("answer", {"", "A"}),
     r \in BodyKeyChoices("results", {<< >>} \cup {<<e>> : e \in ResultEntryInputs}
                                       \cup {<<e, << >> >> : e \in ResultEntryInputs})}

\* How the fetch settles: it rejects, or it resolves with a status and a body.
FetchInputs ==
  {[rejected |-> TRUE, error |-> Error("TypeError", <<"fetch failed">>)]}
  \cup {[rejected |-> FALSE, status |-> st, json |-> FALSE] : st \in {401, 429, 500}}
  \cup {[rejected |-> FALSE, status |-> 200, json |-> FALSE]}
  \cup {[rejected |-> FALSE, status |-> 200, json |-> TRUE, data |-> d] : d \in TavilyDataInputs}

NoFetch == [rejected |-> FALSE, status |-> 0, json |-> FALSE]
NoOutcome == [threw |-> FALSE, value |-> [pending |-> TRUE]]

ToolInit ==
  /\ toolRun \in {[pc |-> "start", env |-> e, query |-> q, fetches |-> << >>,
                   fetched |-> NoFetch, outcome |-> NoOutcome] :
                    e \in TavilyKeyInputs, q \in QueryInputs}
  /\ slots = NoSlots
  /\ ClientIdle
  /\ ChatIdle
  /\ ResolverIdle

\* execute starts: reads the credential, returns without it, else issues the fetch.
ToolStart ==
  /\ toolRun.pc = "start"
  /\ IF Falsy(toolRun.env)
       THEN toolRun' = [toolRun EXCEPT !.pc = "done", !.outcome = searchUnavailable]
       ELSE toolRun' = [toolRun EXCEPT !.pc = "fetching",
                                       !.fetches = Append(@, searchRequest(toolRun.env, toolRun.query))]
  /\ UNCHANGED <<serverVars, slots, clientVars>>

\* await fetch(...) settles; if (!tavilyResponse.ok) throw.
ToolFetchSettles ==
  /\ toolRun.pc = "fetching"
  /\ \E r \in FetchInputs :
       toolRun' =
         IF r.rejected
           THEN [toolRun EXCEPT !.pc = "done", !.fetched = r,
                                !.outcome = [threw |-> TRUE, error |-> r.error]]
         ELSE IF ~ok(r.status)
           THEN [toolRun EXCEPT !.pc = "done", !.fetched = r, !.outcome = searchFailed(r.status)]
         ELSE [toolRun EXCEPT !.pc = "json", !.fetched = r]
  /\ UNCHANGED <<serverVars, slots, clientVars>>

\* await tavilyResponse.json() settles; the result is returned.
ToolJson ==
  /\ toolRun.pc = "json"
  /\ toolRun' =
       IF toolRun.fetched.json
         THEN [toolRun EXCEPT !.pc = "done", !.outcome = searchResult(toolRun.fetched.data)]
         ELSE [toolRun EXCEPT !.pc = "done",
                 !.outcome = [threw |-> TRUE,
                              error |-> Error("SyntaxError", <<"Unexpected token < in JSON at position 0">>)]]
  /\ UNCHANGED <<serverVars, slots, clientVars>>

ToolNext == ToolStart \/ ToolFetchSettles \/ ToolJson

SpecTool == ToolInit /\ [][ToolNext]_vars

----------------------------------------------------------------------------
(* Two concurrent requests: each handler invocation has its own locals *)

SlotApiKeys == {"", "sk-test", "sk-other"}

SlotBodies ==
  {Merge(Merge(a, b), c) :
     a \in BodyKeyChoices("provider", {"openai", "anthropic"}),
     b \in {[apiKey |-> k] : k \in SlotApiKeys},
     c \in {[model |-> m] : m \in ModelInputs}}

SlotRequests == {[malformed |-> TRUE, body |-> EmptyObject]} \cup {[malformed |-> FALSE, body |-> b] : b \in SlotBodies}

\* The vendor errors of the concurrent requests.
SlotErrors == {Error("AI_APICallError", <<"invalid api key">>), Error("Error", <<"Rate limit exceeded">>)}

\* The arguments of the getModel call of the invocation in slot i.
slotParams(sl, i) ==
  LET b == IF sl[i].route = "chat" THEN Destructure(sl[i].request.body)
           ELSE TestDestructure(sl[i].request.body)
  IN  [provider |-> b.provider, apiKey |-> b.apiKey, model |-> b.model, extraConfig |-> b.extraConfig]

\* slotResolve with a module-level cache of handles keyed by provider.
slotResolve_cached(sl, i) ==
  IF \E j \in SlotIds \ {i} : /\ sl[j].modelInstance # NoModelInstance
                              /\ slotParams(sl, j).provider = slotParams(sl, i).provider
    THEN Return(sl[CHOOSE j \in SlotIds \ {i} :
                     /\ sl[j].modelInstance # NoModelInstance
                     /\ slotParams(sl, j).provider = slotParams(sl, i).provider].modelInstance)
    ELSE getModel(slotParams(sl, i))

\* modelInstance = getModel({ provider, apiKey, model, extraConfig }): built from the
\* invocation's own locals; no module-level state is read or written.
slotResolve(sl, i) == getModel(slotParams(sl, i))

SlotsInit == ChatInit

SlotReceive(i) ==
  /\ slots[i].pc = "idle"
  /\ \E r \in {"chat", "test"}, q \in SlotRequests :
       slots' = [slots EXCEPT ![i] = [@ EXCEPT !.route = r, !.request = q, !.pc = "parse"]]

SlotParse(i) ==
  /\ slots[i].pc = "parse"
  /\ slots' = [slots EXCEPT ![i] =
       IF @.request.malformed
         THEN [@ EXCEPT !.response = JsonResponse(400, [error |-> <<"Invalid JSON body.">>]), !.pc = "done"]
         ELSE [@ EXCEPT !.pc = "validate"]]

SlotValidateAndResolve(i) ==
  /\ slots[i].pc = "validate"
  /\ LET p == slotParams(slots, i)
         resolved == slotResolve(slots, i)
         chat == slots[i].route = "chat"
         rejected ==
           IF chat
             THEN IF apiKeyMissing(p.provider, p.apiKey)
                    THEN JsonResponse(400, [error |-> <<"No API key provided. Please configure a provider in Settings.">>])
                  ELSE IF modelMissing(p.model, p.extraConfig)
                    THEN JsonResponse(400, [error |-> <<"No model specified.">>])
                  ELSE IF resolved.threw THEN resolveFailure(resolved.error)
                  ELSE NoResponse
             ELSE IF testApiKeyMissing(p.provider, p.apiKey) THEN testRejected(<<"API key is required.">>)
                  ELSE IF testModelMissing(p.model) THEN testRejected(<<"Model is required.">>)
                  ELSE IF resolved.threw THEN testRejected(resolved.error.message)
                  ELSE NoResponse
     IN  slots' = [slots EXCEPT ![i] =
           IF rejected # NoResponse
             THEN [@ EXCEPT !.response = rejected, !.pc = "done"]
             ELSE [@ EXCEPT !.modelInstance = resolved.value,
                            !.pc = IF chat THEN "convert" ELSE "generate"]]

SlotConvert(i) ==
  /\ slots[i].pc = "convert"
  /\ \/ slots' = [slots EXCEPT ![i] = [@ EXCEPT !.pc = "generate"]]
     \/ \E err \in SlotErrors :
          slots' = [slots EXCEPT ![i] = [@ EXCEPT !.vendor = err, !.response = catchResponse(err), !.pc = "done"]]

SlotGenerate(i) ==
  /\ slots[i].pc = "generate"
  /\ \/ slots' = [slots EXCEPT ![i] =
          [@ EXCEPT !.response = IF slots[i].route = "chat" THEN StreamResponse ELSE testSucceeded, !.pc = "done"]]
     \/ \E err \in SlotErrors :
          slots' = [slots EXCEPT ![i] =
            [@ EXCEPT !.vendor = err,
                      !.response = IF slots[i].route = "chat" THEN catchResponse(err) ELSE testFailed(err),
                      !.pc = "done"]]

SlotsNext ==
  /\ \E i \in SlotIds :
       SlotReceive(i) \/ SlotParse(i) \/ SlotValidateAndResolve(i) \/ SlotConvert(i) \/ SlotGenerate(i)
  /\ UNCHANGED <<serverVars, toolRun, clientVars>>

SpecSlots == SlotsInit /\ [][SlotsNext]_vars

----------------------------------------------------------------------------
(* The same request sent to both routes *)

PairExtraConfigs ==
  {EmptyObject, [modelId |-> ""], [modelId |-> "v1"], [baseURL |-> "v1"],
   [baseURL |-> "v1", modelId |-> "v1"], [resourceName |-> "v1"]}

PairBodies ==
  {Merge(Merge(a, b), Merge(c, d)) :
     a \in BodyKeyChoices("provider", ProviderInputs),
     b \in BodyKeyChoices("apiKey", ApiKeyInputs),
     c \in BodyKeyChoices("model", ModelInputs),
     d \in BodyKeyChoices("extraConfig", PairExtraConfigs)}

PairRequests == {[malformed |-> TRUE, body |-> EmptyObject]} \cup {[malformed |-> FALSE, body |-> b] : b \in PairBodies}

\* One body is posted to /api/chat (slot 1) and to /api/chat/test (slot 2).
PairReceive ==
  /\ \A i \in SlotIds : slots[i].pc = "idle"
  /\ \E q \in PairRequests :
       slots' = [i \in SlotIds |->
                   [slots[i] EXCEPT !.route = IF i = 1 THEN "chat" ELSE "test",
                                    !.request = q, !.pc = "parse"]]

PairNext ==
  /\ \/ PairReceive
     \/ \E i \in SlotIds :
          SlotParse(i) \/ SlotValidateAndResolve(i) \/ SlotConvert(i) \/ SlotGenerate(i)
  /\ UNCHANGED <<serverVars, toolRun, clientVars>>

SpecPair == SlotsInit /\ [][PairNext]_vars

----------------------------------------------------------------------------
(* Browser: the settings context (LLMProvider) *)

SETTINGS_KEY == "lightchat-llm-settings"
ACTIVE_PROVIDER_KEY == "lightchat-active-provider"
AUDIO_INPUT_ENABLED_KEY == "lightchat-audio-input-enabled"

StorageKeys == {SETTINGS_KEY, ACTIVE_PROVIDER_KEY, AUDIO_INPUT_ENABLED_KEY}

\* localStorage.getItem gives null, a text that is no JSON, or a text that parses to a value.
NoItem == [kind |-> "none"]
Item(text) == [kind |-> "text", text |-> text]
CorruptItem == [kind |-> "corrupt"]
JsonItem(value) == [kind |-> "json", value |-> value]

\* prev[providerId]?.key ?? dflt
EntryOr(prev, providerId, key, dflt) ==
  IF providerId \in DOMAIN prev /\ key \in DOMAIN prev[providerId] THEN prev[providerId][key] ELSE dflt

\* provider?.models[0]?.id ?? ''
firstModelId(provider) == IF Len(provider.models) > 0 THEN provider.models[1] ELSE ""

\* The entry setActiveProvider stores when the provider has models and none is selected.
autoSelectEntry(prev, providerId) ==
  [apiKey |-> EntryOr(prev, providerId, "apiKey", ""),
   model |-> firstModelId(PROVIDER_MAP[providerId]),
   extraConfig |-> EntryOr(prev, providerId, "extraConfig", EmptyObject),
   enableWebSearch |-> EntryOr(prev, providerId, "enableWebSearch", FALSE),
   reasoningEffort |-> EntryOr(prev, providerId, "reasoningEffort", Undefined)]

\* setActiveProvider: the settings after the call; shown is the settings object of the
\* render the callback closes over, prev the state the updater is applied to.
setActiveProvider(prev, shown, providerId) ==
  IF Len(PROVIDER_MAP[providerId].models) > 0 /\ Falsy(EntryOr(shown, providerId, "model", Undefined))
    THEN Merge([k \in {providerId} |-> autoSelectEntry(prev, providerId)], prev)
    ELSE prev

\* The entry updateProviderSettings stores.
updatedEntry(prev, providerId, partial) ==
  LET mergedExtraConfig ==
        IF "extraConfig" \in DOMAIN partial
          THEN Merge(partial.extraConfig, EntryOr(prev, providerId, "extraConfig", EmptyObject))
          ELSE EntryOr(prev, providerId, "extraConfig", EmptyObject)
  IN  Merge([extraConfig |-> mergedExtraConfig,
             enableWebSearch |-> IF "enableWebSearch" \in DOMAIN partial THEN partial.enableWebSearch
                                 ELSE EntryOr(prev, providerId, "enableWebSearch", FALSE),
             reasoningEffort |-> IF "reasoningEffort" \in DOMAIN partial THEN partial.reasoningEffort
                                 ELSE EntryOr(prev, providerId, "reasoningEffort", Undefined)],
            Merge(partial,
                  [apiKey |-> EntryOr(prev, providerId, "apiKey", ""),
                   model |-> EntryOr(prev, providerId, "model", firstModelId(PROVIDER_MAP[providerId]))]))

\* updateProviderSettings that drops the entries of the other providers.
updateProviderSettings_onlyThis(prev, providerId, partial) ==
  [k \in {providerId} |-> updatedEntry(prev, providerId, partial)]

\* updateProviderSettings: setSettings((prev) => ({ ...prev, [providerId]: { ... } }))
updateProviderSettings(prev, providerId, partial) ==
  Merge([k \in {providerId} |-> updatedEntry(prev, providerId, partial)], prev)

\* The entry removeProviderKey stores.
keyRemovedEntry(prev, providerId) ==
  Merge([apiKey |-> "",
         extraConfig |-> EntryOr(prev, providerId, "extraConfig", EmptyObject),
         model |-> EntryOr(prev, providerId, "model", ""),
         enableWebSearch |-> EntryOr(prev, providerId, "enableWebSearch", FALSE),
         reasoningEffort |-> EntryOr(prev, providerId, "reasoningEffort", Undefined)],
        IF providerId \in DOMAIN prev THEN prev[providerId] ELSE EmptyObject)

\* removeProviderKey that stores an entry with the key alone.
removeProviderKey_resetsEntry(prev, providerId) ==
  Merge([k \in {providerId} |->
           [apiKey |-> "", extraConfig |-> EmptyObject, model |-> "", enableWebSearch |-> FALSE,
            reasoningEffort |-> Undefined]], prev)

\* removeProviderKey: setSettings((prev) => ({ ...prev, [providerId]: { ...prev[providerId], apiKey: '', ... } }))
removeProviderKey(prev, providerId) ==
  Merge([k \in {providerId} |-> keyRemovedEntry(prev, providerId)], prev)

\* JSON.stringify(settings): a property whose value is undefined is left out.
stringifySettings(settings) ==
  [p \in DOMAIN settings |->
     [k \in {j \in DOMAIN settings[p] : j = "reasoningEffort" => settings[p][j] # Undefined} |->
        settings[p][k]]]

\* The shape test of the load effect on one entry of the parsed value.
validEntry(entry) ==
  /\ {"apiKey", "model", "extraConfig"} \subseteq DOMAIN entry
  /\ "enableWebSearch" \in DOMAIN entry => entry.enableWebSearch \in BOOLEAN
  /\ "reasoningEffort" \in DOMAIN entry => entry.reasoningEffort \in {"low", "medium", "high", "xhigh"}

validSettings(parsed) == \A p \in DOMAIN parsed : validEntry(parsed[p])

\* The React state of LLMProvider after useState: the defaults, not hydrated.
DefaultLlmState ==
  [activeProviderId |-> DEFAULT_PROVIDER_ID, settings |-> EmptyObject, audioInputEnabled |-> TRUE,
   hydrated |-> FALSE]

\* Stored settings: an entry without model and extraConfig, one provider, two providers.
StoredPartialEntry == [openai |-> [apiKey |-> "sk-test"]]

StoredOneProvider == [openai |-> [apiKey |-> "sk-test", model |-> "gpt-4o", extraConfig |-> EmptyObject]]

StoredTwoProviders ==
  Merge([openai |-> [apiKey |-> "sk-test", model |-> "gpt-4o", extraConfig |-> EmptyObject,
                     enableWebSearch |-> TRUE, reasoningEffort |-> "low"]],
        [k \in {"openai-compatible"} |->
           [apiKey |-> "sk-test", model |-> "", extraConfig |-> [baseURL |-> "v1", modelId |-> "v1"]]])

\* What localStorage may hold when the page starts: the items under the three keys.
storageOf(settingsItem, providerItem, audioItem) ==
  Merge([k \in {SETTINGS_KEY} |-> settingsItem],
        Merge([k \in {ACTIVE_PROVIDER_KEY} |-> providerItem],
              [k \in {AUDIO_INPUT_ENABLED_KEY} |-> audioItem]))

StorageInputs ==
  {storageOf(NoItem, NoItem, NoItem),
   storageOf(CorruptItem, Item("openai-compatible"), Item("false")),
   storageOf(JsonItem(StoredPartialEntry), Item(""), Item("yes")),
   storageOf(JsonItem(StoredOneProvider), NoItem, Item("false")),
   storageOf(JsonItem(StoredTwoProviders), Item("openai-compatible"), NoItem),
   storageOf(JsonItem(StoredTwoProviders), Item("openai"), Item("true"))}

\* The providers the context is called for, and the partial settings passed.
SettingsProviderIds == {"openai", "openai-compatible"}

PartialInputs == {[apiKey |-> "sk-test"], [model |-> "gpt-4o-mini", extraConfig |-> [baseURL |-> "v1"]]}

\* The page starts: LLMProvider has rendered once with the defaults; no effect has run.
SettingsInit ==
  /\ llm \in {[mounted |-> TRUE, state |-> DefaultLlmState, rendered |-> DefaultLlmState,
               loaded |-> FALSE, reads |-> {}, writes |-> {}, overwritten |-> {}, calls |-> << >>,
               storage |-> stored] : stored \in StorageInputs}
  /\ lookups = NoLookups
  /\ modal = NoModal
  /\ store = NoStore
  /\ toolRun = NoToolRun
  /\ slots = NoSlots
  /\ ChatIdle
  /\ ResolverIdle

\* The effects of the first commit: the load effect reads localStorage inside one try
\* block and sets hydrated; the persist effects of that commit still see hydrated false.
LoadEffect ==
  /\ llm.mounted
  /\ ~llm.loaded
  /\ LET stored == llm.storage
         threw == stored[SETTINGS_KEY].kind = "corrupt"
         settingsLoaded ==
           IF stored[SETTINGS_KEY].kind = "json" /\ validSettings(stored[SETTINGS_KEY].value)
             THEN stored[SETTINGS_KEY].value
             ELSE llm.state.settings
         providerLoaded ==
           IF ~threw /\ stored[ACTIVE_PROVIDER_KEY].kind = "text" /\ stored[ACTIVE_PROVIDER_KEY].text # ""
             THEN stored[ACTIVE_PROVIDER_KEY].text
             ELSE llm.state.activeProviderId
         audioLoaded ==
           IF ~threw /\ stored[AUDIO_INPUT_ENABLED_KEY].kind = "text"
                     /\ stored[AUDIO_INPUT_ENABLED_KEY].text \in {"true", "false"}
             THEN stored[AUDIO_INPUT_ENABLED_KEY].text = "true"
             ELSE llm.state.audioInputEnabled
     IN  llm' = [llm EXCEPT !.state = [activeProviderId |-> providerLoaded, settings |-> settingsLoaded,
                                       audioInputEnabled |-> audioLoaded, hydrated |-> TRUE],
                            !.loaded = TRUE,
                            !.reads = IF threw THEN {SETTINGS_KEY} ELSE StorageKeys]
  /\ UNCHANGED <<serverVars, toolRun, slots, lookups, modal, store>>

\* What the persist effects write for a state.
persisted(state) ==
  Merge([k \in {SETTINGS_KEY} |-> JsonItem(stringifySettings(state.settings))],
        Merge([k \in {ACTIVE_PROVIDER_KEY} |-> Item(state.activeProviderId)],
              [k \in {AUDIO_INPUT_ENABLED_KEY} |-> Item(IF state.audioInputEnabled THEN "true" ELSE "false")]))

\* The keys whose persist effect runs and writes in a commit from state old to state new.
persistKeys(old, new) ==
  IF ~new.hydrated THEN {}
  ELSE {k \in StorageKeys :
          \/ old.hydrated # new.hydrated
          \/ k = SETTINGS_KEY /\ old.settings # new.settings
          \/ k = ACTIVE_PROVIDER_KEY /\ old.activeProviderId # new.activeProviderId
          \/ k = AUDIO_INPUT_ENABLED_KEY /\ old.audioInputEnabled # new.audioInputEnabled}

\* React renders the queued state and runs the persist effects whose dependencies changed.
Render ==
  /\ llm.mounted
  /\ llm.loaded
  /\ llm.state # llm.rendered \/ llm.calls # << >>
  /\ LET keys == persistKeys(llm.rendered, llm.state)
     IN  llm' = [llm EXCEPT !.rendered = llm.state,
                            !.calls = << >>,
                            !.storage = [k \in StorageKeys |->
                                           IF k \in keys THEN persisted(llm.state)[k] ELSE llm.storage[k]],
                            !.writes = @ \cup keys,
                            !.overwritten = @ \cup {k \in keys : k \notin llm.reads /\ llm.storage[k] # NoItem}]
  /\ UNCHANGED <<serverVars, toolRun, slots, lookups, modal, store>>

\* A call of the context from an event handler of the current render.
CanCall == llm.mounted /\ llm.loaded /\ Len(llm.calls) < MaxBatch

SetActiveProvider(providerId) ==
  /\ CanCall
  /\ llm' = [llm EXCEPT !.state.activeProviderId = providerId,
                        !.state.settings = setActiveProvider(@, llm.rendered.settings, providerId),
                        !.calls = Append(@, [name |-> "setActiveProvider", provider |-> providerId])]
  /\ UNCHANGED <<serverVars, toolRun, slots, lookups, modal, store>>

UpdateProviderSettings(providerId, partial) ==
  /\ CanCall
  /\ llm' = [llm EXCEPT !.state.settings = updateProviderSettings(@, providerId, partial),
                        !.calls = Append(@, [name |-> "updateProviderSettings", provider |-> providerId])]
  /\ UNCHANGED <<serverVars, toolRun, slots, lookups, modal, store>>

RemoveProviderKey(providerId) ==
  /\ CanCall
  /\ llm' = [llm EXCEPT !.state.settings = removeProviderKey(@, providerId),
                        !.calls = Append(@, [name |-> "removeProviderKey", provider |-> providerId])]
  /\ UNCHANGED <<serverVars, toolRun, slots, lookups, modal, store>>

SetAudioInputEnabled(enabled) ==
  /\ CanCall
  /\ llm' = [llm EXCEPT !.state.audioInputEnabled = enabled,
                        !.calls = Append(@, [name |-> "setAudioInputEnabled", provider |-> ""])]
  /\ UNCHANGED <<serverVars, toolRun, slots, lookups, modal, store>>

SettingsNext ==
  \/ LoadEffect
  \/ Render
  \/ \E p \in SettingsProviderIds : SetActiveProvider(p)
  \/ \E p \in SettingsProviderIds, partial \in PartialInputs : UpdateProviderSettings(p, partial)
  \/ \E p \in SettingsProviderIds : RemoveProviderKey(p)
  \/ \E enabled \in BOOLEAN : SetAudioInputEnabled(enabled)

SpecSettings == SettingsInit /\ [][SettingsNext]_vars

-----------------------------------------------------------------------------
(* Browser: the settings panel (SettingsModal) *)

\* The most connection tests started, and the most saves, while the page is open.
MaxTests == 1

MaxSaves == 1

\* Texts whose trim() is empty, among the texts typed.
BlankTexts == {"", " "}

\* draftApiKey.trim().length > 0
hasApiKey(draftApiKey) == draftApiKey \notin BlankTexts

\* saved?.model ?? provider?.models[0]?.id ?? ''
draftModelOf(settings, providerId) ==
  EntryOr(settings, providerId, "model", firstModelId(PROVIDER_MAP[providerId]))

\* The component after its first render: the draft comes from the context's defaults.
MountedModal ==
  [open |-> FALSE,
   draftProviderId |-> DefaultLlmState.activeProviderId,
   draftApiKey |-> EntryOr(DefaultLlmState.settings, DefaultLlmState.activeProviderId, "apiKey", ""),
   draftModel |-> draftModelOf(DefaultLlmState.settings, DefaultLlmState.activeProviderId),
   draftExtraConfig |-> EntryOr(DefaultLlmState.settings, DefaultLlmState.activeProviderId, "extraConfig", EmptyObject),
   showKey |-> FALSE, testStatus |-> "idle", testError |-> "", isSaved |-> FALSE, draftKeyRemoved |-> FALSE,
   pending |-> << >>, tests |-> 0, saves |-> 0, resultFor |-> [provider |-> ""]]

\* The state after syncDraft(providerId), called with the settings of the current render.
syncDraft(m, settings, providerId) ==
  [m EXCEPT !.draftProviderId = providerId,
            !.draftApiKey = EntryOr(settings, providerId, "apiKey", ""),
            !.draftModel = draftModelOf(settings, providerId),
            !.draftExtraConfig = EntryOr(settings, providerId, "extraConfig", EmptyObject),
            !.testStatus = "idle",
            !.testError = "",
            !.isSaved = FALSE,
            !.showKey = FALSE,
            !.draftKeyRemoved = FALSE]

\* The body handleTest posts: the draft values of the render whose button was clicked.
testBodyOf(m) ==
  [provider |-> m.draftProviderId, apiKey |-> m.draftApiKey, model |-> m.draftModel,
   extraConfig |-> m.draftExtraConfig]

\* The outcomes the test request can have: res.ok && data.success, or an error.
testOutcomes(body) ==
  IF testApiKeyMissing(body.provider, body.apiKey) \/ testModelMissing(body.model)
    THEN {"error"}
    ELSE {"success", "error"}

\* Inputs of the panel: the providers chosen in the dropdown, the texts typed.
ModalProviderIds == {"openai", "openai-compatible"}

DraftKeyInputs == {"sk-new"}

ExtraKeyInputs == {"baseURL"}

ExtraValueInputs == {"v1"}

DraftModelInputs == {"gpt-4o-mini"}

\* What localStorage holds when the page with the panel starts.
ModalStorageInputs ==
  {storageOf(NoItem, NoItem, NoItem),
   storageOf(JsonItem(StoredTwoProviders), Item("openai"), Item("true"))}

ModalInit ==
  /\ llm \in {[mounted |-> TRUE, state |-> DefaultLlmState, rendered |-> DefaultLlmState,
               loaded |-> FALSE, reads |-> {}, writes |-> {}, overwritten |-> {}, calls |-> << >>,
               storage |-> stored] : stored \in ModalStorageInputs}
  /\ modal = MountedModal
  /\ lookups = NoLookups
  /\ store = NoStore
  /\ toolRun = NoToolRun
  /\ slots = NoSlots
  /\ ChatIdle
  /\ ResolverIdle

\* The user acts on what the last render shows: the context has no queued update.
Shown == llm.mounted /\ llm.loaded /\ llm.state = llm.rendered /\ llm.calls = << >>

PanelShown == Shown /\ modal.open

\* isOpen becomes true: the effect calls syncDraft(activeProviderId).
OpenModal ==
  /\ Shown
  /\ ~modal.open
  /\ modal' = [syncDraft(modal, llm.rendered.settings, llm.rendered.activeProviderId) EXCEPT !.open = TRUE]
  /\ UNCHANGED <<serverVars, toolRun, slots, lookups, llm, store>>

\* Escape, the close button or a click on the overlay: onClose().
CloseModal ==
  /\ PanelShown
  /\ modal' = [modal EXCEPT !.open = FALSE]
  /\ UNCHANGED <<serverVars, toolRun, slots, lookups, llm, store>>

\* Cancel: setDraftKeyRemoved(false); onClose().
CancelModal ==
  /\ PanelShown
  /\ modal' = [modal EXCEPT !.open = FALSE, !.draftKeyRemoved = FALSE]
  /\ UNCHANGED <<serverVars, toolRun, slots, lookups, llm, store>>

\* The provider dropdown: onChange={(e) => syncDraft(e.target.value)}.
SelectProvider(providerId) ==
  /\ PanelShown
  /\ modal' = syncDraft(modal, llm.rendered.settings, providerId)
  /\ UNCHANGED <<serverVars, toolRun, slots, lookups, llm, store>>

EditApiKey(v) ==
  /\ PanelShown
  /\ modal' = [modal EXCEPT !.draftApiKey = v, !.testStatus = "idle"]
  /\ UNCHANGED <<serverVars, toolRun, slots, lookups, llm, store>>

EditExtraConfig(key, v) ==
  /\ PanelShown
  /\ key \in {ExtraConfigFieldsOf(PROVIDER_MAP[modal.draftProviderId])[i].key :
                i \in DOMAIN ExtraConfigFieldsOf(PROVIDER_MAP[modal.draftProviderId])}
  /\ modal' = [modal EXCEPT !.draftExtraConfig = Merge([k \in {key} |-> v], @), !.testStatus = "idle"]
  /\ UNCHANGED <<serverVars, toolRun, slots, lookups, llm, store>>

\* The model select, shown when the draft provider lists models.
EditModel(v) ==
  /\ PanelShown
  /\ \E i \in DOMAIN PROVIDER_MAP[modal.draftProviderId].models :
       PROVIDER_MAP[modal.draftProviderId].models[i] = v
  /\ modal' = [modal EXCEPT !.draftModel = v, !.testStatus = "idle"]
  /\ UNCHANGED <<serverVars, toolRun, slots, lookups, llm, store>>

ToggleShowKey ==
  /\ PanelShown
  /\ modal' = [modal EXCEPT !.showKey = ~@]
  /\ UNCHANGED <<serverVars, toolRun, slots, lookups, llm, store>>

HandleRemoveKey ==
  /\ PanelShown
  /\ hasApiKey(modal.draftApiKey)
  /\ modal' = [modal EXCEPT !.draftApiKey = "", !.testStatus = "idle", !.draftKeyRemoved = TRUE]
  /\ UNCHANGED <<serverVars, toolRun, slots, lookups, llm, store>>

\* handleSave: the draft is committed to the context in one batch of calls.
HandleSave ==
  /\ PanelShown
  /\ modal.saves < MaxSaves
  /\ LET p == modal.draftProviderId
         activated == setActiveProvider(llm.state.settings, llm.rendered.settings, p)
         removed == IF modal.draftKeyRemoved THEN removeProviderKey(activated, p) ELSE activated
         updated == updateProviderSettings(removed, p,
                      [apiKey |-> modal.draftApiKey, model |-> modal.draftModel,
                       extraConfig |-> modal.draftExtraConfig])
     IN  llm' = [llm EXCEPT !.state.activeProviderId = p,
                            !.state.settings = updated,
                            !.calls = @ \o <<[name |-> "setActiveProvider", provider |-> p]>>
                                        \o (IF modal.draftKeyRemoved
                                              THEN <<[name |-> "removeProviderKey", provider |-> p]>>
                                              ELSE << >>)
                                        \o <<[name |-> "updateProviderSettings", provider |-> p]>>]
  /\ modal' = [modal EXCEPT !.isSaved = TRUE, !.draftKeyRemoved = FALSE, !.saves = @ + 1]
  /\ UNCHANGED <<serverVars, toolRun, slots, lookups, store>>

\* setTimeout(() => setIsSaved(false), 2000)
SavedTimeout ==
  /\ llm.mounted
  /\ modal.isSaved
  /\ modal' = [modal EXCEPT !.isSaved = FALSE]
  /\ UNCHANGED <<serverVars, toolRun, slots, lookups, llm, store>>

\* handleTest up to the fetch: the status becomes 'testing' and the request leaves
\* with the draft values of the render the callback closes over.
HandleTest ==
  /\ PanelShown
  /\ ~((~hasApiKey(modal.draftApiKey) /\ modal.draftProviderId # "google-vertex")
        \/ modal.testStatus = "testing")
  /\ modal.tests < MaxTests
  /\ modal' = [modal EXCEPT !.testStatus = "testing", !.testError = "",
                            !.pending = Append(@, testBodyOf(modal)),
                            !.tests = @ + 1]
  /\ UNCHANGED <<serverVars, toolRun, slots, lookups, llm, store>>

\* handleTest after the fetch: the response of one request in flight arrives.
TestResponds(i, outcome) ==
  /\ llm.mounted
  /\ i \in DOMAIN modal.pending
  /\ outcome \in testOutcomes(modal.pending[i])
  /\ modal' = [modal EXCEPT !.testStatus = outcome,
                            !.testError = IF outcome = "error" THEN "HTTP 400" ELSE @,
                            !.pending = SubSeq(@, 1, i - 1) \o SubSeq(@, i + 1, Len(@)),
                            !.resultFor = modal.pending[i]]
  /\ UNCHANGED <<serverVars, toolRun, slots, lookups, llm, store>>

ModalNext ==
  \/ LoadEffect
  \/ Render
  \/ OpenModal
  \/ CloseModal
  \/ CancelModal
  \/ \E p \in ModalProviderIds : SelectProvider(p)
  \/ \E v \in DraftKeyInputs : EditApiKey(v)
  \/ \E key \in ExtraKeyInputs, v \in ExtraValueInputs : EditExtraConfig(key, v)
  \/ \E v \in DraftModelInputs : EditModel(v)
  \/ ToggleShowKey
  \/ HandleRemoveKey
  \/ HandleSave
  \/ SavedTimeout
  \/ HandleTest
  \/ \E i \in 1..MaxTests, outcome \in {"success", "error"} : TestResponds(i, outcome)

SpecModal == ModalInit /\ [][ModalNext]_vars

-----------------------------------------------------------------------------
(* Browser: the conversation store (useStore) *)

\* The most identifiers crypto.randomUUID() hands out while the page is open.
MaxUuids == 4

\* crypto.randomUUID(): the n-th call returns an identifier no earlier call returned.
randomUUID(n) == <<"uuid", n>>

Null == <<"null">>

TitleInputs == {"Hello"}

\* The store as create() leaves it. The timestamp of a conversation is not kept.
CreatedStore ==
  [created |-> TRUE, conversations |-> << >>, currentConversation |-> Null, isMobileMenuOpen |-> FALSE,
   minted |-> 0, added |-> FALSE]

\* state.conversations.filter((c) => c.id !== id)
withoutId(conversations, id) == SelectSeq(conversations, LAMBDA c : c.id # id)

\* deleteConversation that leaves currentConversation as it is when others remain.
deleteConversation_keepsCurrent(state, id, newId) ==
  LET remaining == withoutId(state.conversations, id)
  IN  IF Len(remaining) = 0
        THEN [conversations |-> <<[id |-> newId, title |-> "New conversation"]>>, currentConversation |-> newId]
        ELSE [conversations |-> remaining, currentConversation |-> state.currentConversation]

\* deleteConversation: the updater passed to set; newId is what randomUUID() returns if called.
deleteConversation(state, id, newId) ==
  LET remaining == withoutId(state.conversations, id)
  IN  IF Len(remaining) = 0
        THEN [conversations |-> <<[id |-> newId, title |-> "New conversation"]>>, currentConversation |-> newId]
        ELSE [conversations |-> remaining,
              currentConversation |-> IF state.currentConversation = id THEN remaining[1].id
                                      ELSE state.currentConversation]

\* editConversation: state.conversations.map((c) => c.id === id ? { ...c, title } : c)
editConversation(conversations, id, title) ==
  [i \in DOMAIN conversations |->
     IF conversations[i].id = id THEN [conversations[i] EXCEPT !.title = title] ELSE conversations[i]]

ConversationIds(conversations) == {conversations[i].id : i \in DOMAIN conversations}

StoreInit ==
  /\ store = CreatedStore
  /\ lookups = NoLookups
  /\ llm = NoLlm
  /\ modal = NoModal
  /\ toolRun = NoToolRun
  /\ slots = NoSlots
  /\ ChatIdle
  /\ ResolverIdle

AddConversation ==
  /\ store.created
  /\ store.minted < MaxUuids
  /\ LET id == randomUUID(store.minted + 1)
     IN  store' = [store EXCEPT !.conversations = <<[id |-> id, title |-> "New conversation"]>> \o @,
                                !.currentConversation = id,
                                !.minted = @ + 1,
                                !.added = TRUE]
  /\ UNCHANGED <<serverVars, toolRun, slots, lookups, llm, modal>>

DeleteConversation(id) ==
  /\ store.created
  /\ LET fresh == Len(withoutId(store.conversations, id)) = 0
         after == deleteConversation(store, id, randomUUID(store.minted + 1))
     IN  /\ fresh => store.minted < MaxUuids
         /\ store' = [store EXCEPT !.conversations = after.conversations,
                                   !.currentConversation = after.currentConversation,
                                   !.minted = IF fresh THEN @ + 1 ELSE @]
  /\ UNCHANGED <<serverVars, toolRun, slots, lookups, llm, modal>>

\* selectConversation, called by the sidebar with the id of a listed conversation.
SelectConversation(id) ==
  /\ store.created
  /\ id \in ConversationIds(store.conversations)
  /\ store' = [store EXCEPT !.currentConversation = id]
  /\ UNCHANGED <<serverVars, toolRun, slots, lookups, llm, modal>>

EditConversation(id, title) ==
  /\ store.created
  /\ store' = [store EXCEPT !.conversations = editConversation(@, id, title)]
  /\ UNCHANGED <<serverVars, toolRun, slots, lookups, llm, modal>>

SetMobileMenuOpen(isOpen) ==
  /\ store.created
  /\ store' = [store EXCEPT !.isMobileMenuOpen = isOpen]
  /\ UNCHANGED <<serverVars, toolRun, slots, lookups, llm, modal>>

StoreNext ==
  \/ AddConversation
  \/ \E n \in 1..MaxUuids : DeleteConversation(randomUUID(n))
  \/ \E n \in 1..MaxUuids : SelectConversation(randomUUID(n))
  \/ \E n \in 1..MaxUuids, title \in TitleInputs : EditConversation(randomUUID(n), title)
  \/ \E isOpen \in BOOLEAN : SetMobileMenuOpen(isOpen)

SpecStore == StoreInit /\ [][StoreNext]_vars

----------------------------------------------------------------------------
(* Catalogue lookups: getProvider called directly *)

\* The ids looked up: the catalogue's, the names every object inherits, and others.
LookupIds == ProviderIds \cup ObjectPrototypeKeys \cup {"", "OpenAI", "gemini"}

\* PROVIDER_MAP[id] finds a property, own or inherited from Object.prototype.
hasProperty(id) == id \in DOMAIN PROVIDER_MAP \cup ObjectPrototypeKeys

\* What a call of getProvider(id) returns: a value, or undefined.
lookupResult(id) ==
  IF hasProperty(id) THEN [defined |-> TRUE, value |-> getProvider(id)] ELSE [defined |-> FALSE]

CatalogueInit == ChatInit

CallGetProvider ==
  /\ Len(lookups) < MaxLookups
  /\ \E id \in LookupIds : lookups' = Append(lookups, [id |-> id, result |-> lookupResult(id)])
  /\ UNCHANGED <<serverVars, toolRun, slots, llm, modal, store>>

CatalogueNext == CallGetProvider

SpecCatalogue == CatalogueInit /\ [][CatalogueNext]_vars

----------------------------------------------------------------------------
(* Properties of the catalogue, under SpecCatalogue *)

\* The value returned is a catalogue descriptor.
IsDescriptor(r) == r.defined /\ "id" \in DOMAIN r.value

FieldKeys(p) == {ExtraConfigFieldsOf(p)[i].key : i \in DOMAIN ExtraConfigFieldsOf(p)}

\* C21: every id occurs exactly once in the catalogue, and every entry whose models
\* list is empty declares a modelId field among its extraConfigFields; so every
\* descriptor a lookup returns is the only entry with its id.
C21_CatalogueInvariant ==
  lookups # << >> =>
    /\ \A i, j \in DOMAIN PROVIDERS : PROVIDERS[i].id = PROVIDERS[j].id => i = j
    /\ \A i \in DOMAIN PROVIDERS : PROVIDERS[i].models = << >> => "modelId" \in FieldKeys(PROVIDERS[i])
    /\ \A k \in DOMAIN lookups :
         IsDescriptor(lookups[k].result) =>
           Cardinality({i \in DOMAIN PROVIDERS : PROVIDERS[i].id = lookups[k].result.value.id}) = 1

C21_Witness ==
  \E k \in DOMAIN lookups :
    /\ lookups[k].id = "openai-compatible"
    /\ IsDescriptor(lookups[k].result)
    /\ lookups[k].result.value.models = << >>
    /\ "modelId" \in FieldKeys(lookups[k].result.value)

\* C22: getProvider(id) returns the descriptor whose id is the argument when the
\* catalogue has one, and undefined for every other string, the names every object
\* inherits included; it never returns a value that is not a descriptor.
C22_LookupTotal ==
  \A k \in DOMAIN lookups :
    LET id == lookups[k].id
        r == lookups[k].result
    IN  /\ id \in ProviderIds => (IsDescriptor(r) /\ r.value.id = id)
        /\ id \notin ProviderIds => ~r.defined
        /\ r.defined => IsDescriptor(r)

\* The case of C22 that fails: an inherited name gives a value that is no descriptor.
C22_Witness ==
  \E k \in DOMAIN lookups :
    /\ lookups[k].id = "constructor"
    /\ lookups[k].result.defined
    /\ ~IsDescriptor(lookups[k].result)

----------------------------------------------------------------------------
(* Properties of the resolver, under SpecResolver *)

\* The direct call's inputs and outcome.
RArgs == resolverArgs
RExtra == Default(resolverArgs, "extraConfig", EmptyObject)
ROut == resolverResult.outcome
RReturned == resolverResult.called /\ ~ROut.threw
RThrew == resolverResult.called /\ ROut.threw

\* The error thrown mentions `phrase` (compared in lower case).
Mentions(error, phrase) == includes(toLowerCase(Text(error.message)), Chars(phrase))

\* The factories of the vendor SDKs.
Factories ==
  {SimpleFactory[p] : p \in DOMAIN SimpleFactory} \cup {"createAzure", "createAmazonBedrock", "createVertex"}

\* The inputs are valid for catalogue entry p, but for the extra-config keys in `except`.
ValidInputsBut(p, except) ==
  /\ RArgs.provider = p.id
  /\ ~Falsy(RArgs.apiKey)
  /\ ~Falsy(RArgs.model)
  /\ \A k \in RequiredKeys(p) \ except : ~Falsy(Get(RExtra, k))
  /\ "apiKey" \notin DOMAIN RExtra

\* C1: for every catalogue id, getModel with that id, a non-empty apiKey, a non-empty
\* model, every required extra-config field and no extraConfig.apiKey returns a model
\* handle and does not throw; every catalogue id has a case of its own in the switch.
C1_CatalogueProvidersResolve ==
  /\ (resolverResult.called /\ RArgs.provider \in ProviderIds) => switchLabel(RArgs.provider) = RArgs.provider
  /\ \A i \in DOMAIN PROVIDERS :
       (resolverResult.called /\ ValidInputsBut(PROVIDERS[i], {}))
         => /\ ~ROut.threw
            /\ ROut.value.factory \in Factories
            /\ ROut.value.modelId = RArgs.model

C1_Witness ==
  /\ RReturned
  /\ RArgs.provider = "amazon-bedrock"
  /\ ValidInputsBut(PROVIDER_MAP["amazon-bedrock"], {})
  /\ ROut.value.factory = "createAmazonBedrock"

\* C2: for every provider string that is not a catalogue id, getModel throws the
\* 'unsupported provider' error, whatever apiKey, model and extraConfig are, and
\* returns no handle.
C2_UnknownProviderRejected ==
  (resolverResult.called /\ RArgs.provider \notin ProviderIds)
    => /\ ROut.threw
       /\ Mentions(ROut.error, "unsupported provider")
       /\ ROut.error.message = <<"Unsupported provider: \"", RArgs.provider, "\". Check your settings.">>

C2_Witness ==
  /\ RThrew
  /\ RArgs.provider = ""
  /\ ~Falsy(RArgs.apiKey)
  /\ Mentions(ROut.error, "unsupported provider")

\* The words by which an error message names an extra-config field.
FieldPhrase(key) ==
  CASE key = "resourceName" -> "resource name"
    [] key = "baseURL" -> "base url"
    [] key = "modelId" -> "modelid"
    [] key = "secretAccessKey" -> "secret access key"
    [] key = "region" -> "region"
    [] key = "project" -> "project id"

\* getModel was called with valid inputs for entry p, but for field k absent or empty.
MissingField(p, k) ==
  resolverResult.called /\ ValidInputsBut(p, {k}) /\ Falsy(Get(RExtra, k))

\* C3 as stated: for every provider and every extra-config field the catalogue marks
\* required, getModel with that field absent or empty (all other inputs valid) throws
\* an error whose message names the field.
C3_Original ==
  \A i \in DOMAIN PROVIDERS : \A k \in RequiredKeys(PROVIDERS[i]) :
    MissingField(PROVIDERS[i], k) => (ROut.threw /\ Mentions(ROut.error, FieldPhrase(k)))

\* The required fields the resolver does not insist on: modelId is a fallback for an
\* empty model, region has a default.
OptionalInResolver == {"modelId", "region"}

\* C3 (amended): for every provider and every required extra-config field other than
\* openai-compatible's modelId and amazon-bedrock's region, getModel with that field
\* absent or empty (all other inputs valid) throws an error whose message names the
\* field; with modelId or region absent or empty (all other inputs valid) it returns a
\* handle, built with the explicit model and with region 'us-east-1' respectively.
C3_RequiredFieldsEnforced ==
  \A i \in DOMAIN PROVIDERS : \A k \in RequiredKeys(PROVIDERS[i]) :
    MissingField(PROVIDERS[i], k) =>
      IF k \in OptionalInResolver
        THEN /\ ~ROut.threw
             /\ k = "modelId" => ROut.value.modelId = RArgs.model
             /\ k = "region" => ROut.value.settings.region = "us-east-1"
        ELSE ROut.threw /\ Mentions(ROut.error, FieldPhrase(k))

C3_Witness ==
  /\ RThrew
  /\ MissingField(PROVIDER_MAP["amazon-bedrock"], "secretAccessKey")
  /\ Mentions(ROut.error, "secret access key")

\* C4: for provider 'azure', getModel with extraConfig.resourceName absent or empty
\* throws, for any apiKey and model, an error whose message mentions 'resource name'.
C4_AzureNeedsResourceName ==
  (resolverResult.called /\ RArgs.provider = "azure" /\ Falsy(Get(RExtra, "resourceName")))
    => (ROut.threw /\ Mentions(ROut.error, "resource name"))

C4_Witness ==
  /\ RThrew
  /\ RArgs.provider = "azure"
  /\ Get(RExtra, "resourceName") = ""
  /\ RArgs.apiKey = ""
  /\ Mentions(ROut.error, "resource name")

\* C5: for provider 'openai-compatible', getModel throws when extraConfig.baseURL is
\* absent or empty; throws when model and extraConfig.modelId are both absent or empty;
\* and with a baseURL and one of the two it returns a handle whose model is the explicit
\* model when that is non-empty, else extraConfig.modelId.
C5_OpenAICompatible ==
  (resolverResult.called /\ RArgs.provider = "openai-compatible")
    => LET baseURL == Get(RExtra, "baseURL")
           modelId == Get(RExtra, "modelId")
       IN  /\ Falsy(baseURL) => ROut.threw
           /\ (Falsy(RArgs.model) /\ Falsy(modelId)) => ROut.threw
           /\ (~Falsy(baseURL) /\ ~(Falsy(RArgs.model) /\ Falsy(modelId)))
                => /\ ~ROut.threw
                   /\ ROut.value.modelId = (IF RArgs.model # "" THEN RArgs.model ELSE modelId)
                   /\ ROut.value.settings.baseURL = baseURL

C5_Witness ==
  /\ RReturned
  /\ RArgs.provider = "openai-compatible"
  /\ RArgs.model = "gpt-4o"
  /\ Get(RExtra, "modelId") = "v1"
  /\ ROut.value.modelId = "gpt-4o"

\* C6: for provider 'google-vertex', getModel with a non-empty extraConfig.apiKey and a
\* project (with or without location) throws an error telling the caller to remove the
\* API key and use Application Default Credentials; with a project and no
\* extraConfig.apiKey it returns a handle.
C6_VertexRejectsApiKey ==
  (resolverResult.called /\ RArgs.provider = "google-vertex" /\ ~Falsy(Get(RExtra, "project")))
    => IF ~Falsy(Get(RExtra, "apiKey"))
         THEN /\ ROut.threw
              /\ Mentions(ROut.error, "remove the api key")
              /\ Mentions(ROut.error, "application default credentials")
         ELSE /\ ~ROut.threw
              /\ ROut.value.factory = "createVertex"
              /\ ROut.value.settings.project = Get(RExtra, "project")

C6_Witness ==
  /\ RThrew
  /\ RArgs.provider = "google-vertex"
  /\ Get(RExtra, "project") = "v1"
  /\ Get(RExtra, "location") = "v1"
  /\ Get(RExtra, "apiKey") = "v1"
  /\ Mentions(ROut.error, "remove the api key")

----------------------------------------------------------------------------
(* Properties of the chat route, under Spec *)

\* What the request body says, read off the raw body.
Body == request.body
BodyProvider == IF "provider" \in DOMAIN Body THEN Body.provider ELSE "google"
BodyApiKeyEmpty == "apiKey" \notin DOMAIN Body \/ Body.apiKey = ""
BodyModelEmpty == "model" \notin DOMAIN Body \/ Body.model = ""
BodyExtra == IF "extraConfig" \in DOMAIN Body THEN Body.extraConfig ELSE EmptyObject
BodyExtraEmpty(key) == key \notin DOMAIN BodyExtra \/ BodyExtra[key] = ""
BodyParams ==
  [provider |-> BodyProvider,
   apiKey |-> IF BodyApiKeyEmpty THEN "" ELSE Body.apiKey,
   model |-> IF BodyModelEmpty THEN "" ELSE Body.model,
   extraConfig |-> BodyExtra]

\* The request was parsed and the handler is past its validation and resolution.
PastValidation == ~request.malformed /\ pc \in {"convert", "stream", "done"}

\* The response is the JSON error `text` with status `status`.
IsJsonError(status, text) ==
  /\ response.status = status
  /\ response.kind = "json"
  /\ response.body = [error |-> <<text>>]

\* Call `name` was made for this request.
Called(name) == \E i \in DOMAIN calls : calls[i] = name

NoApiKeyText == "No API key provided. Please configure a provider in Settings."
NoModelText == "No model specified."

\* C7: the handler answers 400 with 'No API key provided...' every request whose apiKey
\* is empty and whose provider is not google-vertex, and 400 with a specific message
\* every request with neither a non-empty model nor a non-empty extraConfig.modelId,
\* both before any call of getModel or streamText; a google-vertex request with an
\* empty apiKey passes the API-key check.
C7_ValidationRejects ==
  PastValidation =>
    /\ (BodyApiKeyEmpty /\ BodyProvider # "google-vertex")
         => /\ pc = "done"
            /\ IsJsonError(400, NoApiKeyText)
            /\ ~Called("getModel") /\ ~Called("streamText") /\ ~streamCall.called
    /\ (BodyModelEmpty /\ BodyExtraEmpty("modelId"))
         => /\ pc = "done"
            /\ IsJsonError(400, NoApiKeyText) \/ IsJsonError(400, NoModelText)
            /\ ~(BodyApiKeyEmpty /\ BodyProvider # "google-vertex") => IsJsonError(400, NoModelText)
            /\ ~Called("getModel") /\ ~Called("streamText") /\ ~streamCall.called
    /\ (BodyApiKeyEmpty /\ BodyProvider = "google-vertex")
         => /\ Called("checkModel")
            /\ ~IsJsonError(400, NoApiKeyText)

C7_Witness ==
  /\ PastValidation
  /\ BodyProvider = "google-vertex"
  /\ BodyApiKeyEmpty
  /\ ~BodyModelEmpty
  /\ ~BodyExtraEmpty("project")
  /\ streamCall.called
  /\ response = StreamResponse

\* A second case of C7: a request rejected for its missing model.
C7_WitnessNoModel ==
  /\ PastValidation
  /\ ~BodyApiKeyEmpty
  /\ BodyModelEmpty /\ BodyExtraEmpty("modelId")
  /\ IsJsonError(400, NoModelText)

\* C8: a request for openai-compatible with no model (or an empty one), a non-empty
\* extraConfig.modelId and a baseURL is not answered with the missing-model error, and
\* (its apiKey being non-empty) its model handle is built with extraConfig.modelId as
\* the model identifier, which is the handle streamText is called with.
C8_ModelIdFallback ==
  (/\ PastValidation
   /\ BodyProvider = "openai-compatible"
   /\ BodyModelEmpty
   /\ ~BodyExtraEmpty("modelId")
   /\ ~BodyExtraEmpty("baseURL"))
    => /\ ~IsJsonError(400, NoModelText)
       /\ ~BodyApiKeyEmpty =>
            /\ Called("getModel")
            /\ modelInstance.factory = "createOpenAI"
            /\ modelInstance.modelId = BodyExtra["modelId"]
            /\ modelInstance.settings = [apiKey |-> Body.apiKey, baseURL |-> BodyExtra["baseURL"]]
            /\ streamCall.called => streamCall.model = modelInstance
            /\ response.status = 400 => Called("convertToModelMessages")

C8_Witness ==
  /\ PastValidation
  /\ BodyProvider = "openai-compatible"
  /\ "model" \notin DOMAIN Body
  /\ ~BodyExtraEmpty("modelId")
  /\ ~BodyExtraEmpty("baseURL")
  /\ streamCall.called
  /\ streamCall.model.modelId = BodyExtra["modelId"]
  /\ response = StreamResponse

\* C9: a request whose body is not parseable JSON is answered 400 with
\* { error: "Invalid JSON body." }; no validation, no getModel call and no streamText
\* call happens for it.
C9_InvalidJson ==
  (request.malformed /\ pc # "parse")
    => /\ pc = "done"
       /\ response = JsonResponse(400, [error |-> <<"Invalid JSON body.">>])
       /\ Text(response.body.error) = Chars("Invalid JSON body.")
       /\ calls = <<"req.json">>
       /\ modelInstance = NoModelInstance
       /\ ~streamCall.called

C9_Witness ==
  /\ request.malformed
  /\ pc = "done"
  /\ response.status = 400
  /\ response.body.error = <<"Invalid JSON body.">>

\* The request passes parse and validation, and the resolver throws for it.
ResolverThrows ==
  /\ ~request.malformed
  /\ ~(BodyApiKeyEmpty /\ BodyProvider # "google-vertex")
  /\ ~(BodyModelEmpty /\ BodyExtraEmpty("modelId"))
  /\ getModel(BodyParams).threw

\* C10: whenever the resolver throws, the response is 400 with the resolver's message
\* as its error field, and streamText is never called for the request; streamText is
\* called only after parse, validation and resolution have succeeded, in that order.
C10_ResolveBeforeStream ==
  /\ (PastValidation /\ ResolverThrows)
       => /\ pc = "done"
          /\ response.status = 400
          /\ response.kind = "json"
          /\ response.body = [error |-> getModel(BodyParams).error.message]
          /\ ~Called("convertToModelMessages") /\ ~Called("streamText") /\ ~streamCall.called
  /\ (streamCall.called \/ Called("streamText"))
       => /\ calls = <<"req.json", "checkApiKey", "checkModel", "getModel",
                        "convertToModelMessages", "streamText">>
          /\ ~request.malformed
          /\ ~(BodyApiKeyEmpty /\ BodyProvider # "google-vertex")
          /\ ~(BodyModelEmpty /\ BodyExtraEmpty("modelId"))
          /\ ~getModel(BodyParams).threw
          /\ streamCall.model = getModel(BodyParams).value
  /\ \A i, j \in DOMAIN calls :
       (calls[i] = "req.json" /\ calls[j] \in {"checkApiKey", "checkModel", "getModel", "streamText"}) => i < j
  /\ \A i, j \in DOMAIN calls :
       (calls[i] \in {"checkApiKey", "checkModel"} /\ calls[j] \in {"getModel", "streamText"}) => i < j
  /\ \A i, j \in DOMAIN calls : (calls[i] = "getModel" /\ calls[j] = "streamText") => i < j

C10_Witness ==
  /\ PastValidation
  /\ ResolverThrows
  /\ BodyProvider = "amazon-bedrock"
  /\ response.status = 400
  /\ response.body.error = <<"Amazon Bedrock requires an AWS Secret Access Key.">>

\* The catalogue entries that declare supportsTools: true.
ToolProviders ==
  {PROVIDERS[i].id : i \in {j \in DOMAIN PROVIDERS :
                              "supportsTools" \in DOMAIN PROVIDERS[j] /\ PROVIDERS[j].supportsTools}}

BodyWebSearch == "enableWebSearch" \in DOMAIN Body /\ Body.enableWebSearch

\* C11: streamText gets the web_search tool if and only if the request has
\* enableWebSearch true and the catalogue entry of its provider has supportsTools true;
\* for a provider without tool support, or with no catalogue entry, no tool is attached
\* whatever enableWebSearch is.
C11_WebSearchTool ==
  /\ streamCall.called =>
       /\ streamCall.tools \subseteq {"web_search"}
       /\ ("web_search" \in streamCall.tools) <=> (BodyWebSearch /\ BodyProvider \in ToolProviders)
       /\ BodyProvider \notin ToolProviders => streamCall.tools = {}
  /\ pc = "stream" =>
       \A p \in ProviderInputs \ ToolProviders : \A ws \in BOOLEAN : toolsFor(ws, p) = {}

C11_Witness ==
  /\ streamCall.called
  /\ BodyWebSearch
  /\ BodyProvider = "anthropic"
  /\ streamCall.tools = {}

\* A second case of C11: the tool is attached for a provider with tool support.
C11_WitnessAttached ==
  /\ streamCall.called
  /\ BodyWebSearch
  /\ BodyProvider = "openai"
  /\ streamCall.tools = {"web_search"}

\* The catch block around the generation step has caught an error.
Caught == pc = "done" /\ caught # NoError

\* The error's message mentions one of the words (compared in lower case).
MentionsAny(err, words) == \E w \in words : Mentions(err, w)

AuthWords == {"auth", "key"}
StructureWords == {"invalid", "malformed", "required", "missing"}

\* C13 as stated: the status is chosen from the error text alone: 401 when it mentions
\* authentication or an API key, otherwise 400 when it describes something as invalid,
\* malformed, required or missing, otherwise 500.
C13_Original ==
  Caught =>
    response.status =
      (IF MentionsAny(caught, AuthWords) THEN 401
       ELSE IF MentionsAny(caught, StructureWords) THEN 400
       ELSE 500)

\* C13 (amended): the status is chosen from the error's text and name: 401 when the
\* message contains 'auth' or 'key'; otherwise 400 when the error is named
\* 'ValidationError' or the message contains invalid, malformed, required or missing;
\* otherwise 500.  Every error falls in exactly one bucket and the status is one of
\* 400, 401, 500.
C13_StatusBuckets ==
  Caught =>
    LET unauthorized == MentionsAny(caught, AuthWords)
        badRequest == ~unauthorized /\ (caught.name = "ValidationError" \/ MentionsAny(caught, StructureWords))
        internal == ~unauthorized /\ ~badRequest
    IN  /\ response.status \in {400, 401, 500}
        /\ unauthorized <=> response.status = 401
        /\ badRequest <=> response.status = 400
        /\ internal <=> response.status = 500

C13_Witness ==
  /\ Caught
  /\ caught = Error("ValidationError", <<"Rate limit exceeded">>)
  /\ response.status = 400

\* The streamText call of this request threw.
StreamTextThrew == Caught /\ calls[Len(calls)] = "streamText"

\* C14: when the vendor call of a request rejects with message m, the response is a
\* JSON body whose error field is exactly m, with the status of the handler's
\* classification: 401 for a message containing 'invalid api key'.
C14_VendorErrorVerbatim ==
  StreamTextThrew =>
    /\ response.kind = "json"
    /\ DOMAIN response.body = {"error"}
    /\ response.body.error = caught.message
    /\ Text(response.body.error) = Text(caught.message)
    /\ includes(toLowerCase(Text(caught.message)), Chars("invalid api key")) => response.status = 401
    /\ response.status \in {400, 401, 500}
    /\ response.status # 401 => ~MentionsAny(caught, AuthWords)

C14_Witness ==
  /\ StreamTextThrew
  /\ caught.message = <<"invalid api key">>
  /\ response.status = 401
  /\ response.body = [error |-> <<"invalid api key">>]

\* C26: whenever the handler reaches the streamText call, the model handle was built
\* with a non-empty model identifier, for every provider and every body that passed
\* validation.
C26_ModelIdNonEmpty ==
  streamCall.called => streamCall.model.modelId # ""

\* The case of C26 that fails: an empty model passes validation on extraConfig.modelId,
\* and a provider other than openai-compatible builds its handle from model alone.
C26_Witness ==
  /\ streamCall.called
  /\ BodyProvider = "openai"
  /\ BodyModelEmpty
  /\ ~BodyExtraEmpty("modelId")
  /\ streamCall.model.factory = "createOpenAI"
  /\ streamCall.model.modelId = ""

----------------------------------------------------------------------------
(* Properties of the connection-test route, under SpecTest *)

TestBody == request.body
TestParsed == route = "test" /\ ~request.malformed /\ Called("req.json")
TestProvider == Default(TestBody, "provider", "google")
TestApiKeyEmpty == "apiKey" \notin DOMAIN TestBody \/ TestBody.apiKey = ""

\* The generateText call of this request threw.
GenerateTextThrew == route = "test" /\ pc = "done" /\ caught # NoError

\* C16 as stated: when validation and resolution succeed and the generation call fails,
\* the response is HTTP 200 with body { success: false, error: <message> }.
C16_Original ==
  GenerateTextThrew =>
    /\ response.status = 200
    /\ response.body = [success |-> FALSE, error |-> caught.message]

\* C16 (amended): when validation and resolution succeed and the generation call fails,
\* the response is HTTP 400 with body { success: false, error: <message> }; only a
\* successful call is answered with status 200.
C16_GenerationFailure ==
  /\ GenerateTextThrew =>
       /\ Called("getModel") /\ Called("generateText")
       /\ response.kind = "json"
       /\ response.status = 400
       /\ response.body = [success |-> FALSE, error |-> caught.message]
  /\ (route = "test" /\ pc = "done") =>
       (response.status = 200 <=> (Called("generateText") /\ caught = NoError))

C16_Witness ==
  /\ GenerateTextThrew
  /\ caught.message = <<"invalid api key">>
  /\ response = JsonResponse(400, [success |-> FALSE, error |-> <<"invalid api key">>])

\* The request was answered before the generation call was attempted.
TestPreCallFailure == route = "test" /\ pc = "done" /\ ~Called("generateText")

\* The request of scenario A's kind: a parsed body with an empty or absent apiKey and a
\* provider other than google-vertex.
TestNoApiKey == TestParsed /\ pc = "done" /\ TestApiKeyEmpty /\ TestProvider # "google-vertex"

\* C17 as stated: such a request is answered 400 with body
\* { success: false, error: "API key is required." }, and every pre-call failure body
\* has success: false.
C17_Original ==
  /\ TestNoApiKey =>
       /\ response.status = 400
       /\ DOMAIN response.body = {"success", "error"}
  /\ TestPreCallFailure => "success" \in DOMAIN response.body

\* C17 (amended): POST /chat/test with an empty apiKey and a provider other than
\* google-vertex responds HTTP 400 with body { error: "API key is required." } (no
\* success field) and makes neither a resolver call nor a generation call; every
\* pre-call failure is HTTP 400 with a body that has an error string and no other field.
C17_ApiKeyRequired ==
  /\ TestNoApiKey =>
       /\ response = JsonResponse(400, [error |-> <<"API key is required.">>])
       /\ Text(response.body.error) = Chars("API key is required.")
       /\ ~Called("getModel")
       /\ ~Called("generateText")
       /\ modelInstance = NoModelInstance
       /\ ~streamCall.called
  /\ TestPreCallFailure =>
       /\ response.kind = "json"
       /\ response.status = 400
       /\ DOMAIN response.body = {"error"}
       /\ Len(Text(response.body.error)) > 0

C17_Witness ==
  /\ route = "test"
  /\ pc = "done"
  /\ TestBody = [provider |-> "openai", apiKey |-> "", model |-> "gpt-4o"]
  /\ response = JsonResponse(400, [error |-> <<"API key is required.">>])

----------------------------------------------------------------------------
(* Properties of both routes, under SpecRoutes *)

\* A request, at either route, whose body has no provider field and has been destructured.
ProviderOmitted ==
  route # "none" /\ ~request.malformed /\ Called("checkApiKey") /\ "provider" \notin DOMAIN request.body

\* The same body with provider set to the default id.
WithDefaultProvider(body) == Merge([provider |-> DEFAULT_PROVIDER_ID], body)

\* What the resolver gives for the request's fields with the default provider id.
DefaultProviderResolved ==
  getModel([provider |-> DEFAULT_PROVIDER_ID,
            apiKey |-> Default(request.body, "apiKey", ""),
            model |-> Default(request.body, "model", ""),
            extraConfig |-> Default(request.body, "extraConfig", EmptyObject)])

\* C15: a chat or connection-test request without provider is handled as the same
\* request with provider 'google': the default id is DEFAULT_PROVIDER_ID, it is the id
\* of a catalogue entry, the API-key check applies to it, and the handle and the tools
\* are those of that provider.
C15_DefaultProvider ==
  /\ DEFAULT_PROVIDER_ID = "google"
  /\ DEFAULT_PROVIDER_ID \in ProviderIds
  /\ ProviderOmitted =>
       /\ route = "chat" => Destructure(request.body) = Destructure(WithDefaultProvider(request.body))
       /\ route = "test" => TestDestructure(request.body) = TestDestructure(WithDefaultProvider(request.body))
       /\ (Called("checkApiKey") /\ Default(request.body, "apiKey", "") = "") =>
            /\ pc = "done"
            /\ response.status = 400
            /\ ~Called("getModel")
       /\ modelInstance # NoModelInstance =>
            /\ ~DefaultProviderResolved.threw
            /\ modelInstance = DefaultProviderResolved.value
            /\ modelInstance.factory = "createGoogleGenerativeAI"
       /\ (route = "chat" /\ streamCall.called) =>
            streamCall.tools = toolsFor(Default(request.body, "enableWebSearch", FALSE), DEFAULT_PROVIDER_ID)

C15_Witness ==
  /\ ProviderOmitted
  /\ route = "chat"
  /\ streamCall.called
  /\ modelInstance.factory = "createGoogleGenerativeAI"
  /\ streamCall.tools = {"web_search"}

\* A second case of C15: the connection-test route.
C15_WitnessTest ==
  /\ ProviderOmitted
  /\ route = "test"
  /\ streamCall.called
  /\ modelInstance.factory = "createGoogleGenerativeAI"

\* The number of vendor generation calls made for the request.
GenerationCalls == Cardinality({i \in DOMAIN calls : calls[i] \in {"streamText", "generateText"}})

C20_WitnessTest ==
  /\ pc = "done"
  /\ caught # NoError
  /\ GenerationCalls = 1
  /\ calls[Len(calls)] = "generateText"

----------------------------------------------------------------------------
(* Properties of two concurrent requests, under SpecSlots *)

\* The body fields of the request in slot i, as its handler reads them.
SlotOwn(i) ==
  [provider |-> Default(slots[i].request.body, "provider", "google"),
   apiKey |-> Default(slots[i].request.body, "apiKey", ""),
   model |-> Default(slots[i].request.body, "model", ""),
   extraConfig |-> Default(slots[i].request.body, "extraConfig", EmptyObject)]

SlotResolved(i) == slots[i].modelInstance # NoModelInstance

C18_WitnessSame ==
  /\ slots[1].pc = "done" /\ slots[2].pc = "done"
  /\ slots[1].route = "chat" /\ slots[1].request = slots[2].request /\ slots[2].route = "chat"
  /\ SlotResolved(1)
  /\ slots[1].vendor = NoError /\ slots[2].vendor = NoError
  /\ slots[1].response = StreamResponse /\ slots[2].response = StreamResponse

----------------------------------------------------------------------------
(* Properties of one request sent to both routes, under SpecPair *)

\* The handler in slot i is past its pre-call validation and its getModel call.
PreCallDecided(i) == slots[i].pc \notin {"idle", "parse", "validate"}

\* The handler in slot i answered before the vendor call was attempted.
PreCallRejected(i) == slots[i].pc = "done" /\ slots[i].modelInstance = NoModelInstance

\* C27: for every request, the connection-test handler rejects during pre-call
\* validation exactly when the chat handler does.
C27_SameValidation ==
  (PreCallDecided(1) /\ PreCallDecided(2)) => (PreCallRejected(1) <=> PreCallRejected(2))

\* The case of C27 that fails: openai-compatible with an empty model and a modelId in
\* extraConfig is accepted by the chat route and refused by the test route.
C27_Witness ==
  /\ PreCallDecided(1) /\ PreCallDecided(2)
  /\ slots[1].request.body = [provider |-> "openai-compatible", apiKey |-> "sk-test", model |-> "",
                              extraConfig |-> [baseURL |-> "v1", modelId |-> "v1"]]
  /\ ~PreCallRejected(1)
  /\ slots[1].modelInstance.modelId = "v1"
  /\ slots[2].response = JsonResponse(400, [error |-> <<"Model is required.">>])

----------------------------------------------------------------------------
(* Properties of the web_search tool, under SpecTool *)

\* C12: when web_search executes without the server-held credential TAVILY_API_KEY, it
\* returns a value carrying an unavailability message, throws nothing and makes no
\* search call; with the credential, when the search call answers with a non-OK
\* status, it throws an error and returns no result.
C12_SearchCredential ==
  toolRun.pc = "done" =>
    /\ (toolRun.env = Undefined \/ toolRun.env = "")
         => /\ ~toolRun.outcome.threw
            /\ DOMAIN toolRun.outcome.value = {"error"}
            /\ includes(toLowerCase(Text(toolRun.outcome.value.error)), Chars("unavailable"))
            /\ toolRun.fetches = << >>
    /\ (~(toolRun.env = Undefined \/ toolRun.env = "")
          /\ ~toolRun.fetched.rejected
          /\ ~(toolRun.fetched.status \in 200..299))
         => /\ toolRun.outcome.threw
            /\ "value" \notin DOMAIN toolRun.outcome
            /\ Mentions(toolRun.outcome.error, "web search failed")
            /\ Len(toolRun.fetches) = 1

C12_Witness ==
  /\ toolRun.pc = "done"
  /\ toolRun.env = Undefined
  /\ ~toolRun.outcome.threw
  /\ toolRun.outcome.value.error
       = <<"Web search is unavailable because TAVILY_API_KEY is not configured on the server.">>

\* A second case of C12: the credential is there and the search call answers 429.
C12_WitnessFailed ==
  /\ toolRun.pc = "done"
  /\ toolRun.env = "tvly-1"
  /\ ~toolRun.fetched.rejected
  /\ toolRun.fetched.status = 429
  /\ toolRun.outcome.threw
  /\ toolRun.outcome.error.message = <<"Web search failed (", "429", ").">>

-----------------------------------------------------------------------------
(* Properties of the settings context *)

\* The call the context received last in the current batch.
LastCall == llm.calls[Len(llm.calls)]

\* The step is a call of the context with this name for provider p.
Calls(name, p) ==
  /\ llm.mounted
  /\ llm'.calls = Append(llm.calls, [name |-> name, provider |-> p])

\* The fields of provider p's entry that removeProviderKey is to keep.
KeptFields == {"model", "extraConfig", "enableWebSearch", "reasoningEffort"}

\* C23: removeProviderKey(p) leaves settings[p].apiKey empty, whatever was stored before
\* (no entry for p included), and every model, extraConfig, enableWebSearch and
\* reasoningEffort stored for p keeps its previous value.
C23_RemoveKeyKeepsRest ==
  [][\A p \in SettingsProviderIds :
       Calls("removeProviderKey", p) =>
         /\ p \in DOMAIN llm'.state.settings
         /\ llm'.state.settings[p].apiKey = ""
         /\ p \in DOMAIN llm.state.settings =>
              \A k \in KeptFields \cap DOMAIN llm.state.settings[p] :
                /\ k \in DOMAIN llm'.state.settings[p]
                /\ llm'.state.settings[p][k] = llm.state.settings[p][k]]_vars

\* The key of a provider with a stored model, web search flag and reasoning effort was removed.
C23_Witness ==
  /\ llm.mounted
  /\ llm.calls # << >>
  /\ LastCall = [name |-> "removeProviderKey", provider |-> "openai"]
  /\ llm.rendered.settings = StoredTwoProviders
  /\ llm.state.settings["openai"]
       = [apiKey |-> "", model |-> "gpt-4o", extraConfig |-> EmptyObject, enableWebSearch |-> TRUE,
          reasoningEffort |-> "low"]

\* A second case of C23: nothing was stored for the provider before the call.
C23_WitnessNoEntry ==
  /\ llm.mounted
  /\ llm.calls = <<[name |-> "removeProviderKey", provider |-> "openai-compatible"]>>
  /\ "openai-compatible" \notin DOMAIN llm.rendered.settings
  /\ llm.state.settings["openai-compatible"].apiKey = ""

\* The entries of every provider other than p are the same before and after the step.
OthersKept(p) ==
  \A q \in (DOMAIN llm.state.settings \cup DOMAIN llm'.state.settings) \ {p} :
    /\ q \in DOMAIN llm.state.settings
    /\ q \in DOMAIN llm'.state.settings
    /\ llm'.state.settings[q] = llm.state.settings[q]

\* Every stored apiKey is the same before and after the step.
ApiKeysKept ==
  \A q \in DOMAIN llm.state.settings :
    /\ q \in DOMAIN llm'.state.settings
    /\ "apiKey" \in DOMAIN llm.state.settings[q] =>
         /\ "apiKey" \in DOMAIN llm'.state.settings[q]
         /\ llm'.state.settings[q].apiKey = llm.state.settings[q].apiKey

\* C24: a call of setActiveProvider, updateProviderSettings or removeProviderKey for
\* provider p leaves the stored entry of every other provider as it was, and
\* setActiveProvider changes no stored apiKey at all, so switching away from a
\* provider and back keeps its key.
C24_PerProviderSettings ==
  [][\A p \in SettingsProviderIds :
       /\ (\/ Calls("setActiveProvider", p)
           \/ Calls("updateProviderSettings", p)
           \/ Calls("removeProviderKey", p)) => OthersKept(p)
       /\ Calls("setActiveProvider", p) => ApiKeysKept]_vars

\* The active provider was switched away from openai and back in one batch; both
\* providers have a stored key.
C24_Witness ==
  /\ llm.mounted
  /\ llm.rendered.activeProviderId = "openai"
  /\ llm.calls = <<[name |-> "setActiveProvider", provider |-> "openai-compatible"],
                   [name |-> "setActiveProvider", provider |-> "openai"]>>
  /\ llm.state.activeProviderId = "openai"
  /\ llm.state.settings["openai"].apiKey = "sk-test"
  /\ llm.state.settings["openai-compatible"].apiKey = "sk-test"

\* A second case of C24: the settings of one provider were updated while another has an entry.
C24_WitnessUpdate ==
  /\ llm.mounted
  /\ llm.calls # << >>
  /\ LastCall = [name |-> "updateProviderSettings", provider |-> "openai-compatible"]
  /\ llm.state.settings["openai-compatible"].model = "gpt-4o-mini"
  /\ "openai" \in DOMAIN llm.state.settings
  /\ "openai" \in DOMAIN llm.rendered.settings
  /\ llm.state.settings["openai"] = llm.rendered.settings["openai"]
  /\ llm.state.settings["openai"].apiKey = "sk-test"

\* Nothing is written to localStorage before the load effect has run.
NoWriteBeforeLoad == llm.writes # {} => llm.loaded

\* No stored item was replaced before the load effect had read it.
NoOverwriteUnread == llm.overwritten = {}

\* Once a hydrated state is rendered, localStorage holds its settings and active provider.
ChangesSaved ==
  llm.rendered.hydrated =>
    /\ llm.storage[SETTINGS_KEY] = persisted(llm.rendered)[SETTINGS_KEY]
    /\ llm.storage[ACTIVE_PROVIDER_KEY] = persisted(llm.rendered)[ACTIVE_PROVIDER_KEY]

\* C25: the settings state loads on start and saves on change: nothing is written to
\* localStorage before the initial load has finished, no stored settings, active
\* provider or audio flag is overwritten by the defaults before it was read, and
\* after the load every rendered change of settings or active provider is in
\* localStorage.
C25_LoadThenSave ==
  llm.mounted => NoWriteBeforeLoad /\ NoOverwriteUnread /\ ChangesSaved

\* The stored settings were not parseable: the stored active provider and audio flag
\* were never read and now hold the defaults.
C25_Witness ==
  /\ llm.mounted
  /\ llm.loaded
  /\ llm.reads = {SETTINGS_KEY}
  /\ llm.overwritten = {ACTIVE_PROVIDER_KEY, AUDIO_INPUT_ENABLED_KEY}
  /\ llm.storage[ACTIVE_PROVIDER_KEY] = Item(DEFAULT_PROVIDER_ID)
  /\ llm.storage[AUDIO_INPUT_ENABLED_KEY] = Item("true")

\* The two parts of C25 that hold on every path.
C25_WriteAfterLoadAndSaved == llm.mounted => NoWriteBeforeLoad /\ ChangesSaved

-----------------------------------------------------------------------------
(* Properties of the settings panel *)

\* The panel is mounted and shows its test status.
StatusShown(status) == "testStatus" \in DOMAIN modal /\ modal.open /\ modal.testStatus = status

\* C28: whenever the panel shows the test status 'success', the test whose result is
\* shown was run with the current draft provider, API key, model and extra config;
\* no result obtained for older draft values is shown for the current ones.
C28_SuccessIsCurrent ==
  StatusShown("success") => modal.resultFor = testBodyOf(modal)

\* A test was started with the stored key, the key field was edited while the request
\* was in flight, and the response of the old request set the status to 'success'.
C28_Witness ==
  /\ StatusShown("success")
  /\ modal.pending = << >>
  /\ modal.draftProviderId = "openai"
  /\ modal.draftApiKey = "sk-new"
  /\ modal.resultFor.provider = "openai"
  /\ modal.resultFor.apiKey = "sk-test"

-----------------------------------------------------------------------------
(* Properties of the conversation store *)

\* The list is non-empty, its ids are pairwise distinct and currentConversation is one of them.
StoreConsistent ==
  /\ Len(store.conversations) >= 1
  /\ \A i, j \in DOMAIN store.conversations :
       store.conversations[i].id = store.conversations[j].id => i = j
  /\ store.currentConversation \in ConversationIds(store.conversations)

\* The step is deleteConversation(id).
Deletes(id) ==
  /\ store.created
  /\ store.added
  /\ store'.conversations = deleteConversation(store, id, randomUUID(store.minted + 1)).conversations
  /\ store'.conversations # store.conversations
  /\ id \in ConversationIds(store.conversations)
  /\ id \notin ConversationIds(store'.conversations)

\* C29: after the first addConversation the list is non-empty, its ids are pairwise
\* distinct and currentConversation is the id of a listed conversation, whatever
\* add, delete, edit and select (of a listed id) calls follow; deleting the only
\* conversation leaves one conversation with an id not used before, which is
\* current, and deleting the current one among several makes the first remaining
\* conversation current.
C29_StoreInvariant ==
  /\ [](("added" \in DOMAIN store /\ store.added) => StoreConsistent)
  /\ [][\A n \in 1..MaxUuids :
          Deletes(randomUUID(n)) =>
            /\ Len(store.conversations) = 1 =>
                 /\ Len(store'.conversations) = 1
                 /\ store'.conversations[1].id # randomUUID(n)
                 /\ \A m \in 1..store.minted : store'.conversations[1].id # randomUUID(m)
                 /\ store'.currentConversation = store'.conversations[1].id
            /\ (Len(store.conversations) > 1 /\ store.currentConversation = randomUUID(n)) =>
                 /\ store'.conversations = withoutId(store.conversations, randomUUID(n))
                 /\ store'.currentConversation = store'.conversations[1].id]_vars

\* The current conversation of several was deleted: the first remaining one is current.
C29_Witness ==
  /\ "added" \in DOMAIN store
  /\ store.added
  /\ store.minted = 3
  /\ ConversationIds(store.conversations) = {randomUUID(1), randomUUID(2)}
  /\ store.currentConversation = randomUUID(2)

\* A second case of C29: the only conversation was deleted and replaced by a fresh one.
C29_WitnessOnly ==
  /\ "added" \in DOMAIN store
  /\ store.added
  /\ store.minted = 2
  /\ ConversationIds(store.conversations) = {randomUUID(2)}
  /\ store.currentConversation = randomUUID(2)
  /\ store.conversations[1].title = "New conversation"

=============================================================================
